---- MODULE Spec2Model ----
(***************************************************************************)
(* A model of the DWARF reader/writer: unit framing, attribute values,     *)
(* abbreviation tables, the DIE cursor and the DIE tree iterator.          *)
(*                                                                         *)
(* Bytes are naturals 0..255 and byte buffers are sequences of bytes.      *)
(* u8 and u16 values are naturals.  u32, u64 and i64 values are sequences  *)
(* of 4 or 8 base-256 digits, least significant first (i64 in two's        *)
(* complement), so that 64-bit arithmetic keeps its width.                 *)
(***************************************************************************)
EXTENDS Integers, Sequences, FiniteSets, TLC

\* ------------------------------------------------------------------------
\* Results of fallible operations: err = "ok" or the error's name; rest is
\* the reader position after the operation (also after a failed one).
Ok(v, rest) == [err |-> "ok", val |-> v, rest |-> rest]
Err(e, rest) == [err |-> e, val |-> <<>>, rest |-> rest]
IsOk(x) == x.err = "ok"
\* try!(x) followed by F on its value
try(x, F(_)) == IF IsOk(x) THEN F(x) ELSE x

\* ------------------------------------------------------------------------
\* Fixed-width integer helpers (digit sequences).
RECURSIVE FromInt(_, _)
FromInt(x, n) == IF n = 0 THEN <<>> ELSE <<x % 256>> \o FromInt(x \div 256, n - 1)

Widen(d, n) == [i \in 1..n |-> IF i <= Len(d) THEN d[i] ELSE 0]
Trunc(d, n) == SubSeq(d, 1, n)
IsZero(d) == \A i \in 1..Len(d) : d[i] = 0
AllOnes(d) == \A i \in 1..Len(d) : d[i] = 255
Reverse(s) == [i \in 1..Len(s) |-> s[Len(s) + 1 - i]]
Drop(s, n) == SubSeq(s, n + 1, Len(s))

\* A digit sequence that fits in 24 bits, and its value as a natural.
IsSmall(d) == \A i \in 4..Len(d) : d[i] = 0
SmallInt(d) == d[1] + (IF Len(d) >= 2 THEN 256 * d[2] ELSE 0)
                    + (IF Len(d) >= 3 THEN 65536 * d[3] ELSE 0)
\* d > n, for a natural n below 2^24 (a buffer length).
GtLen(d, n) == ~IsSmall(d) \/ SmallInt(d) > n

U64(x) == FromInt(x, 8)
U32(x) == FromInt(x, 4)

\* ------------------------------------------------------------------------
\* endian.rs
read_endian(r, len, endian) ==
    IF Len(r) < len THEN Err("Eof", r)
    ELSE Ok(IF endian = "little" THEN SubSeq(r, 1, len) ELSE Reverse(SubSeq(r, 1, len)),
            Drop(r, len))

write_endian(val, endian) == IF endian = "little" THEN val ELSE Reverse(val)

Endian_read_u16(r, endian) ==
    try(read_endian(r, 2, endian), LAMBDA x : Ok(SmallInt(x.val), x.rest))
Endian_read_u32(r, endian) == read_endian(r, 4, endian)
Endian_read_u64(r, endian) == read_endian(r, 8, endian)
Endian_write_u16(val, endian) == write_endian(FromInt(val, 2), endian)
Endian_write_u32(val, endian) == write_endian(val, endian)
Endian_write_u64(val, endian) == write_endian(val, endian)

\* ------------------------------------------------------------------------
\* leb128.rs
\* value >> 8 on u64
Shr8(v) == [i \in 1..8 |-> IF i < 8 THEN v[i + 1] ELSE 0]
\* value >> 7 on u64
Shr7(v) == [i \in 1..8 |-> (v[i] \div 128) + (IF i < 8 THEN (v[i + 1] % 128) * 2 ELSE 0)]
\* value >> 7 on i64 (arithmetic)
Sar7(v) == [i \in 1..8 |-> IF i < 8 THEN (v[i] \div 128) + (v[i + 1] % 128) * 2
                           ELSE 255 * (v[8] \div 128)]
\* result | (b << shift) on 64 bits, b < 128, the bits from shift up being 0
OrShl(result, b, shift) ==
    LET i == (shift \div 8) + 1
        x == b * (2 ^ (shift % 8))
    IN  [k \in 1..8 |-> IF k = i THEN result[k] + (x % 256)
                        ELSE IF k = i + 1 THEN result[k] + (x \div 256)
                        ELSE result[k]]
\* result left as it is
SignExtend_none(result, shift) == result
\* result | (!0 << shift) on 64 bits, shift < 64
SignExtend(result, shift) ==
    LET i == (shift \div 8) + 1
        p == 2 ^ (shift % 8)
    IN  [k \in 1..8 |-> IF k < i THEN result[k]
                        ELSE IF k = i THEN (result[k] % p) + (256 - p)
                        ELSE 255]

\* the loop of read_u64 without the check of the tenth byte
RECURSIVE leb128_read_u64_loop_unchecked(_, _, _)
leb128_read_u64_loop_unchecked(r, result, shift) ==
    IF Len(r) = 0 THEN Err("Io", r)
    ELSE IF Head(r) \div 128 = 0 THEN Ok(OrShl(result, Head(r) % 128, shift), Tail(r))
    ELSE leb128_read_u64_loop_unchecked(Tail(r), OrShl(result, Head(r) % 128, shift), shift + 7)

RECURSIVE leb128_read_u64_loop(_, _, _)
leb128_read_u64_loop(r, result, shift) ==
    IF Len(r) = 0 THEN Err("Io", r)
    ELSE LET byte == Head(r) IN
         IF shift = 63 /\ byte # 0 /\ byte # 1 THEN Err("Overflow", Tail(r))
         ELSE LET res2 == OrShl(result, byte % 128, shift) IN
              IF byte \div 128 = 0 THEN Ok(res2, Tail(r))
              ELSE leb128_read_u64_loop(Tail(r), res2, shift + 7)

leb128_read_u64(r) == leb128_read_u64_loop(r, U64(0), 0)

RECURSIVE leb128_read_i64_loop(_, _, _)
leb128_read_i64_loop(r, result, shift) ==
    IF Len(r) = 0 THEN Err("Io", r)
    ELSE LET byte == Head(r) IN
         IF shift = 63 /\ byte # 0 /\ byte # 127 THEN Err("Overflow", Tail(r))
         ELSE LET res2 == OrShl(result, byte % 128, shift)
                  shift2 == shift + 7
              IN  IF byte \div 128 = 0
                  THEN Ok(IF shift2 < 64 /\ (byte \div 64) % 2 = 1
                          THEN SignExtend(res2, shift2) ELSE res2, Tail(r))
                  ELSE leb128_read_i64_loop(Tail(r), res2, shift2)

leb128_read_i64(r) == leb128_read_i64_loop(r, U64(0), 0)

leb128_read_u16(r) ==
    try(leb128_read_u64(r), LAMBDA x :
        IF ~IsZero(Drop(x.val, 2)) THEN Err("Overflow", x.rest)
        ELSE Ok(SmallInt(x.val), x.rest))

RECURSIVE leb128_write_u64(_)
leb128_write_u64(value) ==
    LET byte == value[1] % 128
        v2 == Shr7(value)
    IN  IF IsZero(v2) THEN <<byte>> ELSE <<byte + 128>> \o leb128_write_u64(v2)

RECURSIVE leb128_write_i64(_)
leb128_write_i64(value) ==
    LET byte == value[1] % 128
        sign == (byte \div 64) % 2 = 1
        v2 == Sar7(value)
    IN  IF (IsZero(v2) /\ ~sign) \/ (AllOnes(v2) /\ sign) THEN <<byte>>
        ELSE <<byte + 128>> \o leb128_write_i64(v2)

leb128_write_u16(value) == leb128_write_u64(U64(value))

\* leb128::Error -> ReadError
ReadErrorFrom(x) ==
    IF x.err = "Overflow" THEN Err("Invalid", x.rest) ELSE x

\* ------------------------------------------------------------------------
\* Primitive readers and writers (read.rs, write.rs).  Writers return the
\* bytes they append to the sink, [err, out]; a failed write has appended
\* the bytes written before the failure.
WOk(bytes) == [err |-> "ok", out |-> bytes]
WErr(e, bytes) == [err |-> e, out |-> bytes]
\* try!(x) followed by the write y
wtry(x, y) ==
    IF x.err # "ok" THEN x
    ELSE IF y.err # "ok" THEN WErr(y.err, x.out \o y.out)
    ELSE WOk(x.out \o y.out)

read_u8(r) == IF Len(r) = 0 THEN Err("Eof", r) ELSE Ok(Head(r), Tail(r))
write_u8(val) == <<val>>

read_block(r, len) ==
    IF len > Len(r) THEN Err("Invalid", r)
    ELSE Ok(SubSeq(r, 1, len), Drop(r, len))

\* r.iter().position(|&x| x == 0), or Len(r) + 1 for None
position0(r) ==
    IF \A i \in 1..Len(r) : r[i] # 0 THEN Len(r) + 1
    ELSE CHOOSE i \in 1..Len(r) : r[i] = 0 /\ \A j \in 1..(i - 1) : r[j] # 0

\* The value is the bytes before the first NUL (AttributeData::String
\* holds bytes, die.rs:381).
read_string_at(r, pos) ==
    IF pos > Len(r) THEN Err("Invalid", r)
    ELSE Ok(SubSeq(r, 1, pos - 1), Drop(r, pos))

read_string(r) == read_string_at(r, position0(r))

read_offset(r, endian, offset_size) ==
    IF offset_size = 4
    THEN try(Endian_read_u32(r, endian), LAMBDA x : Ok(Widen(x.val, 8), x.rest))
    ELSE IF offset_size = 8 THEN Endian_read_u64(r, endian)
    ELSE Err("Unsupported", r)

read_address(r, endian, address_size) ==
    IF address_size = 4
    THEN try(Endian_read_u32(r, endian), LAMBDA x : Ok(Widen(x.val, 8), x.rest))
    ELSE IF address_size = 8 THEN Endian_read_u64(r, endian)
    ELSE Err("Unsupported", r)

write_offset(endian, offset_size, val) ==
    IF offset_size = 4 THEN WOk(Endian_write_u32(Trunc(val, 4), endian))
    ELSE IF offset_size = 8 THEN WOk(Endian_write_u64(val, endian))
    ELSE WErr("Unsupported", <<>>)

write_address(endian, address_size, val) ==
    IF address_size = 4 THEN WOk(Endian_write_u32(Trunc(val, 4), endian))
    ELSE IF address_size = 8 THEN WOk(Endian_write_u64(val, endian))
    ELSE WErr("Unsupported", <<>>)

\* a u32 or u64 that is >= 0xfffffff0
GeReserved(d) == ~IsZero(Drop(d, 4)) \/ (d[4] = 255 /\ d[3] = 255 /\ d[2] = 255 /\ d[1] >= 240)

\* len as usize, capped at 2^24 (beyond every buffer of the model)
AsUsize(d) == IF IsSmall(d) THEN SmallInt(d) ELSE 16777216

\* read_initial_length without the check of the length against the input
read_initial_length_unchecked(r, endian) ==
    try(Endian_read_u32(r, endian), LAMBDA a :
        IF AllOnes(a.val)
        THEN try(Endian_read_u64(a.rest, endian), LAMBDA b :
                 Ok([offset_size |-> 8, len |-> AsUsize(b.val)], b.rest))
        ELSE IF GeReserved(a.val) THEN Err("Unsupported", a.rest)
        ELSE Ok([offset_size |-> 4, len |-> AsUsize(a.val)], a.rest))

\* The initial length of a unit: (offset_size, len).
read_initial_length(r, endian) ==
    try(Endian_read_u32(r, endian), LAMBDA a :
        IF AllOnes(a.val)
        THEN try(Endian_read_u64(a.rest, endian), LAMBDA b :
                 IF GtLen(b.val, Len(b.rest)) THEN Err("Invalid", b.rest)
                 ELSE Ok([offset_size |-> 8, len |-> AsUsize(b.val)], b.rest))
        ELSE IF GeReserved(a.val) THEN Err("Unsupported", a.rest)
        ELSE IF GtLen(a.val, Len(a.rest)) THEN Err("Invalid", a.rest)
        ELSE Ok([offset_size |-> 4, len |-> AsUsize(a.val)], a.rest))

\* ------------------------------------------------------------------------
\* unit.rs
NoUnit == [offset |-> 0, endian |-> "little", version |-> 0, address_size |-> 0,
           offset_size |-> 0, abbrev_offset |-> U64(0), data |-> <<>>,
           type_signature |-> U64(0), type_offset |-> U64(0)]

CompilationUnit_base_header_len(offset_size) == 2 + offset_size + 1

\* total_header_len without the extra 4 bytes of the 64-bit length
CompilationUnit_total_header_len_short(offset_size) ==
    4 + CompilationUnit_base_header_len(offset_size)

CompilationUnit_total_header_len(offset_size) ==
    (offset_size * 2 - 4) + CompilationUnit_base_header_len(offset_size)

CompilationUnit_data_offset(u) == u.offset + CompilationUnit_total_header_len(u.offset_size)

TypeUnit_base_header_len(offset_size) == 2 + offset_size + 1 + 8 + offset_size

TypeUnit_total_header_len(offset_size) ==
    (offset_size * 2 - 4) + TypeUnit_base_header_len(offset_size)

TypeUnit_data_offset(u) == u.offset + TypeUnit_total_header_len(u.offset_size)

\* The header fields, read out of the unit's bytes data; rest is the reader
\* after the unit.
UnitCommon_read_header(data, rest, offset_size, offset, endian) ==
    try(Endian_read_u16(data, endian), LAMBDA version :
        IF version.val < 2 \/ version.val > 4 THEN Err("Unsupported", version.rest)
        ELSE try(read_offset(version.rest, endian, offset_size), LAMBDA abbrev_offset :
             try(read_u8(abbrev_offset.rest), LAMBDA address_size :
                 Ok([NoUnit EXCEPT !.offset = offset, !.endian = endian,
                                   !.version = version.val,
                                   !.address_size = address_size.val,
                                   !.offset_size = offset_size,
                                   !.abbrev_offset = abbrev_offset.val,
                                   !.data = address_size.rest],
                    rest))))

\* Returns the unit (its data being the rest of the declared length) and the
\* reader after the declared length.  "Panic" is the out-of-range slice
\* &r[..len].
UnitCommon_read(r, offset, endian) ==
    try(read_initial_length(r, endian), LAMBDA il :
        IF il.val.len > Len(il.rest) THEN Err("Panic", il.rest)
        ELSE UnitCommon_read_header(SubSeq(il.rest, 1, il.val.len), Drop(il.rest, il.val.len),
                                    il.val.offset_size, offset, endian))

CompilationUnit_read(r, offset, endian) == UnitCommon_read(r, offset, endian)

TypeUnit_read(r, offset, endian) ==
    try(UnitCommon_read(r, offset, endian), LAMBDA c :
        try(Endian_read_u64(c.val.data, endian), LAMBDA type_signature :
            try(read_offset(type_signature.rest, endian, c.val.offset_size), LAMBDA type_offset :
                Ok([c.val EXCEPT !.type_signature = type_signature.val,
                                 !.type_offset = type_offset.val,
                                 !.data = type_offset.rest],
                   c.rest))))

\* len is a usize
UnitCommon_write(u, len) ==
    wtry(IF u.offset_size = 4
         THEN IF GeReserved(U64(len)) THEN WErr("Invalid", <<>>)
              ELSE WOk(Endian_write_u32(Trunc(U64(len), 4), u.endian))
         ELSE IF u.offset_size = 8
         THEN WOk(Endian_write_u32(<<255, 255, 255, 255>>, u.endian)
                  \o Endian_write_u64(U64(len), u.endian))
         ELSE WErr("Unsupported", <<>>),
    wtry(WOk(Endian_write_u16(u.version, u.endian)),
    wtry(write_offset(u.endian, u.offset_size, u.abbrev_offset),
         WOk(write_u8(u.address_size)))))

CompilationUnit_write(u) ==
    wtry(UnitCommon_write(u, CompilationUnit_base_header_len(u.offset_size) + Len(u.data)),
         WOk(u.data))

TypeUnit_write(u) ==
    wtry(UnitCommon_write(u, TypeUnit_base_header_len(u.offset_size) + Len(u.data)),
    wtry(WOk(Endian_write_u64(u.type_signature, u.endian)),
    wtry(write_offset(u.endian, u.offset_size, u.type_offset),
         WOk(u.data))))

\* The end of CompilationUnitIterator::next and TypeUnitIterator::next on an
\* iterator it = [kind, endian, data, offset], x being the unit read: the
\* new iterator and the result, which is "ok" with the unit, or the error.
UnitIterator_advance(it, x) ==
    IF ~IsOk(x) THEN [it |-> it, res |-> x.err, unit |-> NoUnit]
    ELSE [it |-> [it EXCEPT !.offset = it.offset + (Len(it.data) - Len(x.rest)),
                            !.data = x.rest],
          res |-> "ok", unit |-> x.val]

CompilationUnitIterator_next(it) ==
    IF Len(it.data) = 0 THEN [it |-> it, res |-> "none", unit |-> NoUnit]
    ELSE UnitIterator_advance(it, CompilationUnit_read(it.data, it.offset, it.endian))

TypeUnitIterator_next(it) ==
    IF Len(it.data) = 0 THEN [it |-> it, res |-> "none", unit |-> NoUnit]
    ELSE UnitIterator_advance(it, TypeUnit_read(it.data, it.offset, it.endian))

\* ------------------------------------------------------------------------
\* constant.rs: form codes, attribute names, tags, the children flag
DW_FORM_null == 0
DW_FORM_addr == 1
DW_FORM_block2 == 3
DW_FORM_block4 == 4
DW_FORM_data2 == 5
DW_FORM_data4 == 6
DW_FORM_data8 == 7
DW_FORM_string == 8
DW_FORM_block == 9
DW_FORM_block1 == 10
DW_FORM_data1 == 11
DW_FORM_flag == 12
DW_FORM_sdata == 13
DW_FORM_strp == 14
DW_FORM_udata == 15
DW_FORM_ref_addr == 16
DW_FORM_ref1 == 17
DW_FORM_ref2 == 18
DW_FORM_ref4 == 19
DW_FORM_ref8 == 20
DW_FORM_ref_udata == 21
DW_FORM_indirect == 22
DW_FORM_sec_offset == 23
DW_FORM_exprloc == 24
DW_FORM_flag_present == 25
DW_FORM_ref_sig8 == 32
DW_AT_null == 0
DW_AT_sibling == 1
DW_AT_name == 3
DW_TAG_null == 0
DW_TAG_namespace == 57
DW_CHILDREN_no == 0
DW_CHILDREN_yes == 1

\* ------------------------------------------------------------------------
\* die.rs: attribute values.  An AttributeData is [variant, val].
AttributeData(variant, val) == [variant |-> variant, val |-> val]
AttributeData_Null == AttributeData("Null", <<>>)

\* Ok(AttributeData::variant(x)) for a read x
AttrOk(variant, val, rest) == Ok(AttributeData(variant, val), rest)

RECURSIVE AttributeData_read(_, _, _)
AttributeData_read(r, unit, form) ==
    CASE form = DW_FORM_addr ->
            try(read_address(r, unit.endian, unit.address_size),
                LAMBDA x : AttrOk("Address", x.val, x.rest))
      [] form = DW_FORM_block2 ->
            try(Endian_read_u16(r, unit.endian), LAMBDA len :
                try(read_block(len.rest, len.val),
                    LAMBDA x : AttrOk("Block", x.val, x.rest)))
      [] form = DW_FORM_block4 ->
            try(Endian_read_u32(r, unit.endian), LAMBDA len :
                try(read_block(len.rest, AsUsize(len.val)),
                    LAMBDA x : AttrOk("Block", x.val, x.rest)))
      [] form = DW_FORM_data2 ->
            try(Endian_read_u16(r, unit.endian), LAMBDA x : AttrOk("Data2", x.val, x.rest))
      [] form = DW_FORM_data4 ->
            try(Endian_read_u32(r, unit.endian), LAMBDA x : AttrOk("Data4", x.val, x.rest))
      [] form = DW_FORM_data8 ->
            try(Endian_read_u64(r, unit.endian), LAMBDA x : AttrOk("Data8", x.val, x.rest))
      [] form = DW_FORM_string ->
            try(read_string(r), LAMBDA x : AttrOk("String", x.val, x.rest))
      [] form = DW_FORM_block ->
            try(ReadErrorFrom(leb128_read_u64(r)), LAMBDA len :
                try(read_block(len.rest, AsUsize(len.val)),
                    LAMBDA x : AttrOk("Block", x.val, x.rest)))
      [] form = DW_FORM_block1 ->
            try(read_u8(r), LAMBDA len :
                try(read_block(len.rest, len.val),
                    LAMBDA x : AttrOk("Block", x.val, x.rest)))
      [] form = DW_FORM_data1 ->
            try(read_u8(r), LAMBDA x : AttrOk("Data1", x.val, x.rest))
      [] form = DW_FORM_flag ->
            try(read_u8(r), LAMBDA x : AttrOk("Flag", x.val # 0, x.rest))
      [] form = DW_FORM_sdata ->
            try(ReadErrorFrom(leb128_read_i64(r)), LAMBDA x : AttrOk("SData", x.val, x.rest))
      [] form = DW_FORM_strp ->
            try(read_offset(r, unit.endian, unit.offset_size),
                LAMBDA x : AttrOk("StringOffset", x.val, x.rest))
      [] form = DW_FORM_udata ->
            try(ReadErrorFrom(leb128_read_u64(r)), LAMBDA x : AttrOk("UData", x.val, x.rest))
      [] form = DW_FORM_ref_addr ->
            try(IF unit.version = 2
                THEN read_address(r, unit.endian, unit.address_size)
                ELSE read_offset(r, unit.endian, unit.offset_size),
                LAMBDA x : AttrOk("RefAddress", x.val, x.rest))
      [] form = DW_FORM_ref1 ->
            try(read_u8(r), LAMBDA x : AttrOk("Ref", U64(x.val), x.rest))
      [] form = DW_FORM_ref2 ->
            try(Endian_read_u16(r, unit.endian), LAMBDA x : AttrOk("Ref", U64(x.val), x.rest))
      [] form = DW_FORM_ref4 ->
            try(Endian_read_u32(r, unit.endian),
                LAMBDA x : AttrOk("Ref", Widen(x.val, 8), x.rest))
      [] form = DW_FORM_ref8 ->
            try(Endian_read_u64(r, unit.endian), LAMBDA x : AttrOk("Ref", x.val, x.rest))
      [] form = DW_FORM_ref_udata ->
            try(ReadErrorFrom(leb128_read_u64(r)), LAMBDA x : AttrOk("Ref", x.val, x.rest))
      [] form = DW_FORM_indirect ->
            try(ReadErrorFrom(leb128_read_u16(r)),
                LAMBDA val : AttributeData_read(val.rest, unit, val.val))
      [] form = DW_FORM_sec_offset ->
            try(read_offset(r, unit.endian, unit.offset_size),
                LAMBDA x : AttrOk("SecOffset", x.val, x.rest))
      [] form = DW_FORM_exprloc ->
            try(ReadErrorFrom(leb128_read_u64(r)), LAMBDA len :
                try(read_block(len.rest, AsUsize(len.val)),
                    LAMBDA x : AttrOk("ExprLoc", x.val, x.rest)))
      [] form = DW_FORM_flag_present -> AttrOk("Flag", TRUE, r)
      [] form = DW_FORM_ref_sig8 ->
            try(Endian_read_u64(r, unit.endian), LAMBDA x : AttrOk("RefSig", x.val, x.rest))
      [] OTHER -> Err("Unsupported", r)

\* The match of AttributeData::write.  "Panic" is the failed assert!.
AttributeData_write_match(self, unit, form) ==
    CASE self.variant = "Address" /\ form = DW_FORM_addr ->
            write_address(unit.endian, unit.address_size, self.val)
      [] self.variant = "Block" /\ form = DW_FORM_block1 ->
            WOk(write_u8(Len(self.val) % 256) \o self.val)
      [] self.variant = "Block" /\ form = DW_FORM_block2 ->
            WOk(Endian_write_u16(Len(self.val) % 65536, unit.endian) \o self.val)
      [] self.variant = "Block" /\ form = DW_FORM_block4 ->
            WOk(Endian_write_u32(U32(Len(self.val)), unit.endian) \o self.val)
      [] self.variant = "Block" /\ form = DW_FORM_block ->
            WOk(leb128_write_u64(U64(Len(self.val))) \o self.val)
      [] self.variant = "Data1" /\ form = DW_FORM_data1 -> WOk(write_u8(self.val))
      [] self.variant = "Data2" /\ form = DW_FORM_data2 ->
            WOk(Endian_write_u16(self.val, unit.endian))
      [] self.variant = "Data4" /\ form = DW_FORM_data4 ->
            WOk(Endian_write_u32(self.val, unit.endian))
      [] self.variant = "Data8" /\ form = DW_FORM_data8 ->
            WOk(Endian_write_u64(self.val, unit.endian))
      [] self.variant = "UData" /\ form = DW_FORM_udata -> WOk(leb128_write_u64(self.val))
      [] self.variant = "SData" /\ form = DW_FORM_sdata -> WOk(leb128_write_i64(self.val))
      [] self.variant = "Flag" /\ form = DW_FORM_flag ->
            WOk(write_u8(IF self.val THEN 1 ELSE 0))
      [] self.variant = "Flag" /\ form = DW_FORM_flag_present ->
            IF self.val THEN WOk(<<>>) ELSE WErr("Panic", <<>>)
      [] self.variant = "String" /\ form = DW_FORM_string ->
            WOk(self.val \o write_u8(0))
      [] self.variant = "StringOffset" /\ form = DW_FORM_strp ->
            write_offset(unit.endian, unit.offset_size, self.val)
      [] self.variant = "Ref" /\ form = DW_FORM_ref1 -> WOk(write_u8(self.val[1]))
      [] self.variant = "Ref" /\ form = DW_FORM_ref2 ->
            WOk(Endian_write_u16(SmallInt(Trunc(self.val, 2)), unit.endian))
      [] self.variant = "Ref" /\ form = DW_FORM_ref4 ->
            WOk(Endian_write_u32(Trunc(self.val, 4), unit.endian))
      [] self.variant = "Ref" /\ form = DW_FORM_ref8 ->
            WOk(Endian_write_u64(self.val, unit.endian))
      [] self.variant = "Ref" /\ form = DW_FORM_ref_udata -> WOk(leb128_write_u64(self.val))
      [] self.variant = "RefAddress" /\ form = DW_FORM_ref_addr ->
            IF unit.version = 2
            THEN write_address(unit.endian, unit.address_size, self.val)
            ELSE write_offset(unit.endian, unit.offset_size, self.val)
      [] self.variant = "RefSig" /\ form = DW_FORM_ref_sig8 ->
            WOk(Endian_write_u64(self.val, unit.endian))
      [] self.variant = "SecOffset" /\ form = DW_FORM_sec_offset ->
            write_offset(unit.endian, unit.offset_size, self.val)
      [] self.variant = "ExprLoc" /\ form = DW_FORM_exprloc ->
            WOk(leb128_write_u64(U64(Len(self.val))) \o self.val)
      [] OTHER -> WErr("Unsupported", <<>>)

AttributeData_write(self, unit, form, indirect) ==
    wtry(IF indirect THEN WOk(leb128_write_u16(form)) ELSE WOk(<<>>),
         AttributeData_write_match(self, unit, form))

\* ------------------------------------------------------------------------
\* abbrev.rs.  An Abbrev is [code, tag, children, attributes], code being a
\* u64; an AbbrevAttribute is [at, form]; an AbbrevHash is the set of its
\* abbreviations, at most one for a code; an AbbrevVec is a sequence.
\* Option values are None or Some(v).
None == [some |-> FALSE, val |-> <<>>]
Some(v) == [some |-> TRUE, val |-> v]

AbbrevHash_get(hash, code) ==
    IF \E a \in hash : a.code = code
    THEN Some(CHOOSE a \in hash : a.code = code)
    ELSE None

\* The new map, and whether there was an abbreviation of that code
AbbrevHash_insert(hash, abbrev) ==
    [hash |-> {a \in hash : a.code # abbrev.code} \cup {abbrev},
     is_some |-> \E a \in hash : a.code = abbrev.code]

AbbrevAttribute_null == [at |-> DW_AT_null, form |-> DW_FORM_null]
AbbrevAttribute_is_null(self) == self.at = DW_AT_null /\ self.form = DW_FORM_null

AbbrevAttribute_read(r) ==
    try(ReadErrorFrom(leb128_read_u16(r)), LAMBDA at :
        try(ReadErrorFrom(leb128_read_u16(at.rest)), LAMBDA form :
            IF AbbrevAttribute_is_null([at |-> at.val, form |-> form.val])
            THEN Ok(None, form.rest)
            ELSE Ok(Some([at |-> at.val, form |-> form.val]), form.rest)))

AbbrevAttribute_write(self) == leb128_write_u16(self.at) \o leb128_write_u16(self.form)
AbbrevAttribute_write_null == AbbrevAttribute_write(AbbrevAttribute_null)

\* while let Some(attribute) = try!(AbbrevAttribute::read(r))
RECURSIVE Abbrev_read_attributes(_, _)
Abbrev_read_attributes(r, attributes) ==
    try(AbbrevAttribute_read(r), LAMBDA x :
        IF x.val.some THEN Abbrev_read_attributes(x.rest, Append(attributes, x.val.val))
        ELSE Ok(attributes, x.rest))

Abbrev_read(r) ==
    try(ReadErrorFrom(leb128_read_u64(r)), LAMBDA code :
        IF IsZero(code.val) THEN Ok(None, code.rest)
        ELSE try(ReadErrorFrom(leb128_read_u16(code.rest)), LAMBDA tag :
             try(read_u8(tag.rest), LAMBDA children :
                 IF children.val \notin {DW_CHILDREN_no, DW_CHILDREN_yes}
                 THEN Err("Invalid", children.rest)
                 ELSE try(Abbrev_read_attributes(children.rest, <<>>), LAMBDA attributes :
                          Ok(Some([code |-> code.val, tag |-> tag.val,
                                   children |-> children.val = DW_CHILDREN_yes,
                                   attributes |-> attributes.val]),
                             attributes.rest)))))

Abbrev_write_null == leb128_write_u64(U64(0))

RECURSIVE Abbrev_write_attributes(_)
Abbrev_write_attributes(attributes) ==
    IF attributes = <<>> THEN <<>>
    ELSE AbbrevAttribute_write(Head(attributes)) \o Abbrev_write_attributes(Tail(attributes))

\* Abbrev::write without the terminator of the attribute list
Abbrev_write_unterminated(self) ==
    IF IsZero(self.code) THEN leb128_write_u64(self.code)
    ELSE leb128_write_u64(self.code)
            \o leb128_write_u16(self.tag)
            \o write_u8(IF self.children THEN DW_CHILDREN_yes ELSE DW_CHILDREN_no)
            \o Abbrev_write_attributes(self.attributes)

Abbrev_write(self) ==
    IF IsZero(self.code) THEN leb128_write_u64(self.code)
    ELSE leb128_write_u64(self.code)
            \o leb128_write_u16(self.tag)
            \o write_u8(IF self.children THEN DW_CHILDREN_yes ELSE DW_CHILDREN_no)
            \o Abbrev_write_attributes(self.attributes)
            \o AbbrevAttribute_write_null

\* while let Some(abbrev) = try!(Abbrev::read(r))
RECURSIVE AbbrevHash_read_loop(_, _)
AbbrevHash_read_loop(r, abbrev_hash) ==
    try(Abbrev_read(r), LAMBDA x :
        IF ~x.val.some THEN Ok(abbrev_hash, x.rest)
        ELSE IF AbbrevHash_insert(abbrev_hash, x.val.val).is_some THEN Err("Invalid", x.rest)
        ELSE AbbrevHash_read_loop(x.rest, AbbrevHash_insert(abbrev_hash, x.val.val).hash))

AbbrevHash_read(r) == AbbrevHash_read_loop(r, {})

RECURSIVE AbbrevVec_write_loop(_)
AbbrevVec_write_loop(vec) ==
    IF vec = <<>> THEN <<>>
    ELSE Abbrev_write(Head(vec)) \o AbbrevVec_write_loop(Tail(vec))

AbbrevVec_write(vec) == WOk(AbbrevVec_write_loop(vec) \o Abbrev_write_null)

\* ------------------------------------------------------------------------
\* die.rs: entries.  A Die is [offset, code, tag, children, attributes]; an
\* Attribute is [at, data].  Die::read works on the cursor's entry, so its
\* result carries the entry also when it fails.
ErrWith(e, v, rest) == [err |-> e, val |-> v, rest |-> rest]

Die_null(offset) ==
    [offset |-> offset, code |-> U64(0), tag |-> DW_TAG_null, children |-> FALSE,
     attributes |-> <<>>]
Die_is_null(self) == IsZero(self.code)

Attribute_read(r, unit, abbrev) ==
    try(AttributeData_read(r, unit, abbrev.form), LAMBDA data :
        Ok([at |-> abbrev.at, data |-> data.val], data.rest))

Attribute_write(self, unit, abbrev) ==
    IF self.at # abbrev.at THEN WErr("Invalid", <<>>)
    ELSE AttributeData_write(self.data, unit, abbrev.form, FALSE)

\* for abbrev_attribute in &abbrev.attributes
RECURSIVE Die_read_attributes(_, _, _, _)
RECURSIVE Die_read_push(_, _, _, _)
Die_read_attributes(self, r, unit, abbrev_attributes) ==
    IF abbrev_attributes = <<>> THEN Ok(self, r)
    ELSE Die_read_push(self, Attribute_read(r, unit, Head(abbrev_attributes)), unit,
                       Tail(abbrev_attributes))
Die_read_push(self, attribute, unit, abbrev_attributes) ==
    IF ~IsOk(attribute) THEN ErrWith(attribute.err, self, attribute.rest)
    ELSE Die_read_attributes([self EXCEPT !.attributes = Append(@, attribute.val)],
                             attribute.rest, unit, abbrev_attributes)

\* Die::read after the lookup of the code
Die_read_abbrev(code, offset, unit, abbrev) ==
    IF ~abbrev.some
    THEN ErrWith("Invalid", [Die_null(offset) EXCEPT !.code = code.val], code.rest)
    ELSE Die_read_attributes([offset |-> offset, code |-> code.val, tag |-> abbrev.val.tag,
                              children |-> abbrev.val.children, attributes |-> <<>>],
                             code.rest, unit, abbrev.val.attributes)

\* Die::read after the read of the code
Die_read_code(code, offset, unit, abbrev_hash) ==
    IF ~IsOk(code) THEN ErrWith(code.err, Die_null(offset), code.rest)
    ELSE IF IsZero(code.val) THEN Ok(Die_null(offset), code.rest)
    ELSE Die_read_abbrev(code, offset, unit, AbbrevHash_get(abbrev_hash, code.val))

Die_read(r, offset, unit, abbrev_hash) ==
    Die_read_code(ReadErrorFrom(leb128_read_u64(r)), offset, unit, abbrev_hash)

Die_write_null == leb128_write_u64(U64(0))

RECURSIVE Die_write_attributes(_, _, _)
Die_write_attributes(attributes, unit, abbrev_attributes) ==
    IF attributes = <<>> THEN WOk(<<>>)
    ELSE wtry(Attribute_write(Head(attributes), unit, Head(abbrev_attributes)),
              Die_write_attributes(Tail(attributes), unit, Tail(abbrev_attributes)))

\* Die::write after the lookup of the code
Die_write_abbrev(self, unit, abbrev) ==
    IF ~abbrev.some THEN WErr("Invalid", <<>>)
    ELSE IF self.children # abbrev.val.children THEN WErr("Invalid", <<>>)
    ELSE IF Len(self.attributes) # Len(abbrev.val.attributes) THEN WErr("Invalid", <<>>)
    ELSE wtry(WOk(leb128_write_u64(abbrev.val.code)),
              Die_write_attributes(self.attributes, unit, abbrev.val.attributes))

Die_write(self, unit, abbrev_hash) ==
    IF IsZero(self.code) THEN WOk(Die_write_null)
    ELSE Die_write_abbrev(self, unit, AbbrevHash_get(abbrev_hash, self.code))

\* ------------------------------------------------------------------------
\* die.rs: the cursor.  A DieIterator is [r, offset, unit, abbrev, entry].
\* A call returns the cursor after it and res: "some" (the entry is the
\* cursor's entry), "none", or the error.
DieIterator_new(r, offset, unit, abbrev) ==
    [r |-> r, offset |-> offset, unit |-> unit, abbrev |-> abbrev, entry |-> Die_null(0)]

\* DieIterator::next after the read of the entry, with self.offset left
\* where it was
DieIterator_next_read_keep_offset(it, x) ==
    IF ~IsOk(x) THEN [it |-> [it EXCEPT !.entry = x.val], res |-> x.err]
    ELSE [it |-> [it EXCEPT !.entry = x.val, !.r = x.rest], res |-> "some"]

\* DieIterator::next after the read of the entry, with the input consumed by
\* a failed read too
DieIterator_next_read_commit(it, x) ==
    [it |-> [it EXCEPT !.entry = x.val,
                       !.offset = it.offset + (Len(it.r) - Len(x.rest)),
                       !.r = x.rest],
     res |-> IF IsOk(x) THEN "some" ELSE x.err]

\* DieIterator::next after the read of the entry
DieIterator_next_read(it, x) ==
    IF ~IsOk(x) THEN [it |-> [it EXCEPT !.entry = x.val], res |-> x.err]
    ELSE [it |-> [it EXCEPT !.entry = x.val,
                            !.offset = it.offset + (Len(it.r) - Len(x.rest)),
                            !.r = x.rest],
          res |-> "some"]

DieIterator_next(it) ==
    IF Len(it.r) = 0 THEN [it |-> it, res |-> "none"]
    ELSE DieIterator_next_read(it, Die_read(it.r, it.offset, it.unit, it.abbrev))

\* a + b on u64: the sum's digits
RECURSIVE AddDigits(_, _, _)
AddDigits(a, b, carry) ==
    IF a = <<>> THEN <<>>
    ELSE <<(a[1] + b[1] + carry) % 256>>
            \o AddDigits(Tail(a), Tail(b), (a[1] + b[1] + carry) \div 256)
\* a + b on u64: whether the sum overflows
RECURSIVE AddCarry(_, _, _)
AddCarry(a, b, carry) ==
    IF a = <<>> THEN carry = 1
    ELSE AddCarry(Tail(a), Tail(b), (a[1] + b[1] + carry) \div 256)

\* The attribute of the entry that the for loop of next_sibling stops at
SiblingAttribute(entry) ==
    IF \E i \in 1..Len(entry.attributes) : entry.attributes[i].at = DW_AT_sibling
    THEN Some(entry.attributes[CHOOSE i \in 1..Len(entry.attributes) :
                                  /\ entry.attributes[i].at = DW_AT_sibling
                                  /\ \A j \in 1..(i - 1) :
                                        entry.attributes[j].at # DW_AT_sibling])
    ELSE None

HasSiblingRef(it) ==
    /\ SiblingAttribute(it.entry).some
    /\ SiblingAttribute(it.entry).val.data.variant = "Ref"

\* sibling_offset (a usize, as u64 digits) after the for loop
sibling_offset(it) ==
    IF HasSiblingRef(it)
    THEN AddDigits(U64(it.unit.offset), SiblingAttribute(it.entry).val.data.val, 0)
    ELSE U64(0)

\* whether unit.offset + offset overflows
sibling_overflow(it) ==
    /\ HasSiblingRef(it)
    /\ AddCarry(U64(it.unit.offset), SiblingAttribute(it.entry).val.data.val, 0)

\* sibling_offset > self.offset and relative_offset < self.r.len()
sibling_jump_strict(it) ==
    /\ GtLen(sibling_offset(it), it.offset)
    /\ ~GtLen(sibling_offset(it), it.offset + Len(it.r) - 1)

\* sibling_offset > self.offset and relative_offset <= self.r.len()
sibling_jump(it) ==
    /\ GtLen(sibling_offset(it), it.offset)
    /\ ~GtLen(sibling_offset(it), it.offset + Len(it.r))

\* The cursor moved to the sibling offset, with its input left where it was
DieIterator_jump_keep_input(it) ==
    [it EXCEPT !.entry = Die_null(0), !.offset = SmallInt(sibling_offset(it))]

\* The cursor moved to the byte before the sibling offset
DieIterator_jump_short(it) ==
    [it EXCEPT !.entry = Die_null(0),
               !.offset = SmallInt(sibling_offset(it)) - 1,
               !.r = Drop(it.r, SmallInt(sibling_offset(it)) - 1 - it.offset)]

\* The cursor moved to the sibling offset
DieIterator_jump(it) ==
    [it EXCEPT !.entry = Die_null(0),
               !.offset = SmallInt(sibling_offset(it)),
               !.r = Drop(it.r, SmallInt(sibling_offset(it)) - it.offset)]

\* The loop of next_sibling.  checked says whether the build checks
\* arithmetic overflow ("Panic").  reads is the offsets at which an entry
\* has been decoded by this call.
RECURSIVE DieIterator_next_sibling_loop(_, _, _, _)
RECURSIVE DieIterator_next_sibling_next(_, _, _, _, _)
DieIterator_next_sibling_loop(it, depth, reads, checked) ==
    IF ~it.entry.children
    THEN DieIterator_next_sibling_next(it, DieIterator_next(it), depth, reads, checked)
    ELSE IF checked /\ sibling_overflow(it)
    THEN [it |-> it, res |-> "Panic", reads |-> reads]
    ELSE IF sibling_jump(it)
    THEN DieIterator_next_sibling_next(DieIterator_jump(it),
                                       DieIterator_next(DieIterator_jump(it)),
                                       depth, reads, checked)
    ELSE DieIterator_next_sibling_next(it, DieIterator_next(it), depth + 1, reads, checked)
\* from the call of next on, with depth kept at a null entry
DieIterator_next_sibling_next_no_null(it, n, depth, reads, checked) ==
    IF n.res = "none" THEN [it |-> n.it, res |-> "none", reads |-> reads]
    ELSE IF n.res # "some"
    THEN [it |-> n.it, res |-> n.res, reads |-> Append(reads, it.offset)]
    ELSE IF depth <= 0
    THEN [it |-> n.it, res |-> "some", reads |-> Append(reads, it.offset)]
    ELSE DieIterator_next_sibling_loop(n.it, depth, Append(reads, it.offset), checked)

\* from the call of next on: n is its result on the cursor it
DieIterator_next_sibling_next(it, n, depth, reads, checked) ==
    IF n.res = "none" THEN [it |-> n.it, res |-> "none", reads |-> reads]
    ELSE IF n.res # "some"
    THEN [it |-> n.it, res |-> n.res, reads |-> Append(reads, it.offset)]
    ELSE IF depth <= 0
    THEN [it |-> n.it, res |-> "some", reads |-> Append(reads, it.offset)]
    ELSE DieIterator_next_sibling_loop(n.it,
                                       IF Die_is_null(n.it.entry) THEN depth - 1 ELSE depth,
                                       Append(reads, it.offset), checked)

DieIterator_next_sibling(it, checked) == DieIterator_next_sibling_loop(it, 0, <<>>, checked)

\* ------------------------------------------------------------------------
\* die.rs: the tree.  A DieTree is [iter, depth]; a DieTreeIterator is
\* [depth, done] and works on the tree it borrows.  DieTree::next returns
\* the tree after it and res: "true", "false", or the error.

\* DieTree::next from the call of next on, the depth adjusted at a null too
DieTree_next_child_adjust(self, n) ==
    IF n.res = "none" THEN [tree |-> [self EXCEPT !.iter = n.it], res |-> "false"]
    ELSE IF n.res # "some" THEN [tree |-> [self EXCEPT !.iter = n.it], res |-> n.res]
    ELSE [tree |-> [self EXCEPT !.iter = n.it, !.depth = self.depth + 1],
          res |-> IF Die_is_null(n.it.entry) THEN "false" ELSE "true"]

\* DieTree::next from the call of next on (the iterator is at the parent)
DieTree_next_child(self, n) ==
    IF n.res = "none" THEN [tree |-> [self EXCEPT !.iter = n.it], res |-> "false"]
    ELSE IF n.res # "some" THEN [tree |-> [self EXCEPT !.iter = n.it], res |-> n.res]
    ELSE IF Die_is_null(n.it.entry) THEN [tree |-> [self EXCEPT !.iter = n.it], res |-> "false"]
    ELSE [tree |-> [self EXCEPT !.iter = n.it, !.depth = self.depth + 1], res |-> "true"]

\* the loop of DieTree::next
RECURSIVE DieTree_next_loop(_, _, _)
RECURSIVE DieTree_next_sibling(_, _, _, _)
DieTree_next_loop(self, depth, checked) ==
    DieTree_next_sibling(self, DieIterator_next_sibling(self.iter, checked), depth, checked)
\* after next_sibling, with self.depth kept at a null entry below the target
DieTree_next_sibling_keep_depth(self, s, depth, checked) ==
    IF s.res = "none" THEN [tree |-> [self EXCEPT !.iter = s.it], res |-> "false"]
    ELSE IF s.res # "some" THEN [tree |-> [self EXCEPT !.iter = s.it], res |-> s.res]
    ELSE IF self.depth = depth
    THEN IF Die_is_null(s.it.entry)
         THEN [tree |-> [self EXCEPT !.iter = s.it, !.depth = self.depth - 1], res |-> "false"]
         ELSE [tree |-> [self EXCEPT !.iter = s.it], res |-> "true"]
    ELSE DieTree_next_loop([self EXCEPT !.iter = s.it], depth, checked)
\* after next_sibling: s is its result
DieTree_next_sibling(self, s, depth, checked) ==
    IF s.res = "none" THEN [tree |-> [self EXCEPT !.iter = s.it], res |-> "false"]
    ELSE IF s.res # "some" THEN [tree |-> [self EXCEPT !.iter = s.it], res |-> s.res]
    ELSE IF self.depth = depth
    THEN IF Die_is_null(s.it.entry)
         THEN [tree |-> [self EXCEPT !.iter = s.it, !.depth = self.depth - 1], res |-> "false"]
         ELSE [tree |-> [self EXCEPT !.iter = s.it], res |-> "true"]
    ELSE DieTree_next_loop([self EXCEPT !.iter = s.it,
                                        !.depth = IF Die_is_null(s.it.entry)
                                                  THEN self.depth - 1 ELSE self.depth],
                           depth, checked)

\* checked also says whether the build has debug assertions.
DieTree_next(self, depth, checked) ==
    IF self.depth < depth
    THEN IF checked /\ self.depth + 1 # depth THEN [tree |-> self, res |-> "Panic"]
         ELSE IF ~self.iter.entry.children THEN [tree |-> self, res |-> "false"]
         ELSE DieTree_next_child(self, DieIterator_next(self.iter))
    ELSE DieTree_next_loop(self, depth, checked)

DieTree_new(iter) == [iter |-> iter, depth |-> 0]
DieTreeIterator_new(depth) == [depth |-> depth, done |-> FALSE]
DieTree_iter(self) == DieTreeIterator_new(self.depth)

\* DieTreeIterator::next after the call of DieTree::next
DieTreeIterator_next_tree(self, t) ==
    IF t.res = "true" THEN [self |-> self, tree |-> t.tree, res |-> "some"]
    ELSE IF t.res = "false"
    THEN [self |-> [self EXCEPT !.done = TRUE], tree |-> t.tree, res |-> "none"]
    ELSE [self |-> self, tree |-> t.tree, res |-> t.res]

\* The iterator and the tree after the call, and res: "some" (the child
\* iterator is DieTreeIterator_new(self.depth + 1)), "none", or the error.
DieTreeIterator_next(self, tree, checked) ==
    IF self.done THEN [self |-> self, tree |-> tree, res |-> "none"]
    ELSE DieTreeIterator_next_tree(self, DieTree_next(tree, self.depth, checked))

\* ------------------------------------------------------------------------
\* constant.rs: line number opcodes
DW_LNS_extended == 0
DW_LNS_copy == 1
DW_LNS_advance_pc == 2
DW_LNS_advance_line == 3
DW_LNS_set_file == 4
DW_LNS_set_column == 5
DW_LNS_negate_stmt == 6
DW_LNS_set_basic_block == 7
DW_LNS_const_add_pc == 8
DW_LNS_fixed_advance_pc == 9
DW_LNS_set_prologue_end == 10
DW_LNS_set_epilogue_begin == 11
DW_LNS_set_isa == 12
DW_LNE_end_sequence == 1
DW_LNE_set_address == 2
DW_LNE_define_file == 3
DW_LNE_set_discriminator == 4

\* ------------------------------------------------------------------------
\* line.rs: u64 arithmetic of the interpreter, on digits.
\* a * m for a u8 m: the carry into digit i, the product's digits, and
\* whether it overflows
RECURSIVE MulCarry(_, _, _)
MulCarry(a, m, i) == IF i = 1 THEN 0 ELSE (a[i - 1] * m + MulCarry(a, m, i - 1)) \div 256
MulU8(a, m) == [i \in 1..8 |-> (a[i] * m + MulCarry(a, m, i)) % 256]
MulU8Overflow(a, m) == MulCarry(a, m, 9) > 0
\* a / d and a % d for a u8 d > 0: the remainder of the digits from i up
RECURSIVE DivRem(_, _, _)
DivRem(a, d, i) == IF i > 8 THEN 0 ELSE (DivRem(a, d, i + 1) * 256 + a[i]) % d
DivU8(a, d) == [i \in 1..8 |-> (DivRem(a, d, i + 1) * 256 + a[i]) \div d]
ModU8(a, d) == U64(DivRem(a, d, 1))
\* x as i64, for an x of 16 bits
I64(x) == [i \in 1..8 |-> IF i = 1 THEN (x + 65536) % 256
                          ELSE IF i = 2 THEN ((x + 65536) \div 256) % 256
                          ELSE IF x < 0 THEN 255 ELSE 0]

read_i8(r) ==
    try(read_u8(r), LAMBDA x : Ok(IF x.val >= 128 THEN x.val - 256 ELSE x.val, x.rest))

\* ------------------------------------------------------------------------
\* line.rs: file entries and the header
FileEntry(path, directory, timestamp, length) ==
    [path |-> path, directory |-> directory, timestamp |-> timestamp, length |-> length]

FileEntry_read(r) ==
    try(read_string(r), LAMBDA path :
    try(ReadErrorFrom(leb128_read_u64(path.rest)), LAMBDA directory :
    try(ReadErrorFrom(leb128_read_u64(directory.rest)), LAMBDA timestamp :
    try(ReadErrorFrom(leb128_read_u64(timestamp.rest)), LAMBDA length :
        Ok(FileEntry(path.val, directory.val, timestamp.val, length.val), length.rest)))))

\* the loop that reads the include directories
RECURSIVE LineProgram_read_directories(_, _)
LineProgram_read_directories(header, include_directories) ==
    IF Len(header) < 1 THEN Err("Invalid", header)
    ELSE IF header[1] = 0 THEN Ok(include_directories, Tail(header))
    ELSE try(read_string(header), LAMBDA x :
             LineProgram_read_directories(x.rest, Append(include_directories, x.val)))

\* the loop that reads the files
RECURSIVE LineProgram_read_files(_, _)
LineProgram_read_files(header, files) ==
    IF Len(header) < 1 THEN Err("Invalid", header)
    ELSE IF header[1] = 0 THEN Ok(files, Tail(header))
    ELSE try(FileEntry_read(header), LAMBDA x :
             LineProgram_read_files(x.rest, Append(files, x.val)))

\* LineProgram::read from the include directories on; p is the program
\* read so far
LineProgram_read_tables(p, header, comp_dir, comp_name, rest) ==
    try(LineProgram_read_directories(header, <<comp_dir>>), LAMBDA dirs :
    try(LineProgram_read_files(dirs.rest, <<FileEntry(comp_name, U64(0), U64(0), U64(0))>>),
        LAMBDA files :
            IF Len(files.rest) # 0 THEN Err("Invalid", files.rest)
            ELSE Ok([p EXCEPT !.include_directories = dirs.val, !.files = files.val], rest)))

\* LineProgram::read from line_range on, with line_range not checked
LineProgram_read_range_unchecked(p, header, comp_dir, comp_name, rest) ==
    try(read_u8(header), LAMBDA line_range :
        try(read_u8(line_range.rest), LAMBDA opcode_base :
            IF opcode_base.val = 0 THEN Err("Invalid", opcode_base.rest)
            ELSE try(read_block(opcode_base.rest, opcode_base.val - 1), LAMBDA lengths :
                LineProgram_read_tables(
                    [p EXCEPT !.line_range = line_range.val,
                              !.opcode_base = opcode_base.val,
                              !.standard_opcode_lengths = lengths.val],
                    lengths.rest, comp_dir, comp_name, rest))))

\* LineProgram::read from line_range on
LineProgram_read_range(p, header, comp_dir, comp_name, rest) ==
    try(read_u8(header), LAMBDA line_range :
        IF line_range.val = 0 THEN Err("Invalid", line_range.rest)
        ELSE try(read_u8(line_range.rest), LAMBDA opcode_base :
            IF opcode_base.val = 0 THEN Err("Invalid", opcode_base.rest)
            ELSE try(read_block(opcode_base.rest, opcode_base.val - 1), LAMBDA lengths :
                LineProgram_read_tables(
                    [p EXCEPT !.line_range = line_range.val,
                              !.opcode_base = opcode_base.val,
                              !.standard_opcode_lengths = lengths.val],
                    lengths.rest, comp_dir, comp_name, rest))))

\* LineProgram::read from default_statement on
LineProgram_read_statement(p, header, comp_dir, comp_name, rest) ==
    try(read_u8(header), LAMBDA default_statement :
    try(read_i8(default_statement.rest), LAMBDA line_base :
        LineProgram_read_range(
            [p EXCEPT !.default_statement = default_statement.val # 0,
                      !.line_base = line_base.val],
            line_base.rest, comp_dir, comp_name, rest)))

\* LineProgram::read from operation_range on
LineProgram_read_operation(p, header, comp_dir, comp_name, rest) ==
    try(IF p.version >= 4 THEN read_u8(header) ELSE Ok(1, header), LAMBDA operation_range :
        IF operation_range.val = 0 THEN Err("Invalid", operation_range.rest)
        ELSE LineProgram_read_statement([p EXCEPT !.operation_range = operation_range.val],
                                        operation_range.rest, comp_dir, comp_name, rest))

\* LineProgram::read from the header's bytes on
LineProgram_read_header(p, header, comp_dir, comp_name, rest) ==
    try(read_u8(header), LAMBDA address_step :
        IF address_step.val = 0 THEN Err("Invalid", address_step.rest)
        ELSE LineProgram_read_operation([p EXCEPT !.address_step = address_step.val],
                                        address_step.rest, comp_dir, comp_name, rest))

NoLineProgram ==
    [offset |-> 0, endian |-> "little", version |-> 0, address_size |-> 0, offset_size |-> 0,
     address_step |-> 0, operation_range |-> 0, default_statement |-> FALSE, line_base |-> 0,
     line_range |-> 0, opcode_base |-> 0, standard_opcode_lengths |-> <<>>,
     include_directories |-> <<>>, files |-> <<>>, data |-> <<>>]

\* LineProgram::read from header_length on; data is the unit's bytes after
\* the version
LineProgram_read_length(p, data, comp_dir, comp_name, rest) ==
    try(read_offset(data, p.endian, p.offset_size), LAMBDA header_length :
        IF GtLen(header_length.val, Len(header_length.rest))
        THEN Err("Invalid", header_length.rest)
        ELSE LineProgram_read_header(
                [p EXCEPT !.data = Drop(header_length.rest, AsUsize(header_length.val))],
                SubSeq(header_length.rest, 1, AsUsize(header_length.val)),
                comp_dir, comp_name, rest))

\* LineProgram::read from the version on; rest is r after the unit
LineProgram_read_version(p, data, comp_dir, comp_name, rest) ==
    try(Endian_read_u16(data, p.endian), LAMBDA version :
        IF version.val < 2 \/ version.val > 4 THEN Err("Unsupported", version.rest)
        ELSE LineProgram_read_length([p EXCEPT !.version = version.val],
                                     version.rest, comp_dir, comp_name, rest))

\* The value is the program, the rest is r after the call (r is left as it
\* was at an error after the initial length)
LineProgram_read(r, offset, endian, address_size, comp_dir, comp_name) ==
    try(read_initial_length(r, endian), LAMBDA il :
        LineProgram_read_version(
            [NoLineProgram EXCEPT !.offset = offset, !.endian = endian,
                                  !.address_size = address_size,
                                  !.offset_size = il.val.offset_size],
            SubSeq(il.rest, 1, il.val.len), comp_dir, comp_name,
            Drop(il.rest, il.val.len)))

\* ------------------------------------------------------------------------
\* line.rs: the interpreter.  A LineIterator is [program, line, copy, data].
Line_new(statement) ==
    [address |-> U64(0), operation |-> U64(0), file |-> U64(1), line |-> U64(1),
     column |-> U64(0), statement |-> statement, basic_block |-> FALSE,
     sequence_end |-> FALSE, prologue_end |-> FALSE, epilogue_begin |-> FALSE,
     isa |-> U64(0), discriminator |-> U64(0)]

LineIterator_new(program) ==
    [program |-> program, line |-> Line_new(program.default_statement),
     copy |-> FALSE, data |-> program.data]

\* The iterator owns a clone of the program
LineProgram_lines(self) == LineIterator_new(self)

\* The result of an opcode: the iterator, the reader r after it, and "ok"
\* or the error.  checked says whether the build checks arithmetic
\* overflow ("Panic").
LnOk(it, r) == [it |-> it, r |-> r, err |-> "ok"]
LnErr(it, r, e) == [it |-> it, r |-> r, err |-> e]
\* try!(x) followed by F on the iterator and x
lnTry(it, x, F(_, _)) == IF IsOk(x) THEN F(it, x) ELSE LnErr(it, x.rest, x.err)

\* self.line.address + delta
LineIterator_add_address(it, delta, r, checked) ==
    IF checked /\ AddCarry(it.line.address, delta, 0) THEN LnErr(it, r, "Panic")
    ELSE LnOk([it EXCEPT !.line.address = AddDigits(it.line.address, delta, 0)], r)

\* advance_pc from the division on; operation is self.line.operation + op_delta
LineIterator_advance_pc_by(it, operation, r, checked) ==
    IF checked /\ MulU8Overflow(DivU8(operation, it.program.operation_range),
                                it.program.address_step)
    THEN LnErr(it, r, "Panic")
    ELSE LineIterator_add_address(
            [it EXCEPT !.line.operation = ModU8(operation, it.program.operation_range)],
            MulU8(DivU8(operation, it.program.operation_range), it.program.address_step),
            r, checked)

LineIterator_advance_pc(it, op_delta, r, checked) ==
    IF checked /\ AddCarry(it.line.operation, op_delta, 0) THEN LnErr(it, r, "Panic")
    ELSE LineIterator_advance_pc_by(it, AddDigits(it.line.operation, op_delta, 0), r, checked)

LineIterator_advance_line(it, delta) ==
    [it EXCEPT !.line.line = AddDigits(it.line.line, delta, 0)]

\* advance_special after advance_pc, x is its result
LineIterator_advance_special_line(x, line_delta) ==
    IF x.err # "ok" THEN x ELSE [x EXCEPT !.it = LineIterator_advance_line(x.it, line_delta)]

LineIterator_advance_special(it, opcode, r, checked) ==
    LineIterator_advance_special_line(
        LineIterator_advance_pc(
            it, U64((opcode - it.program.opcode_base) \div it.program.line_range), r, checked),
        I64(it.program.line_base + ((opcode - it.program.opcode_base) % it.program.line_range)))

\* the for loop of an unknown standard opcode
RECURSIVE LineIterator_skip_operands(_, _, _)
LineIterator_skip_operands(it, r, n) ==
    IF n = 0 THEN LnOk(it, r)
    ELSE lnTry(it, ReadErrorFrom(leb128_read_u64(r)), LAMBDA i, x :
            LineIterator_skip_operands(i, x.rest, n - 1))

\* next_extended after the opcode was read from data, the bytes of the
\* length region; r is the reader after the region
LineIterator_next_extended_opcode(it, opcode, data, r) ==
    IF opcode = 0 THEN LnErr(it, r, "Invalid")
    ELSE IF opcode = DW_LNE_end_sequence
    THEN LnOk([it EXCEPT !.line.sequence_end = TRUE, !.copy = TRUE], r)
    ELSE IF opcode = DW_LNE_set_address
    THEN lnTry(it, read_address(data, it.program.endian, it.program.address_size),
               LAMBDA i, x : LnOk([i EXCEPT !.line.address = x.val,
                                            !.line.operation = U64(0)], r))
    ELSE IF opcode = DW_LNE_define_file
    THEN lnTry(it, FileEntry_read(data),
               LAMBDA i, x : LnOk([i EXCEPT !.program.files = Append(@, x.val)], r))
    ELSE IF opcode = DW_LNE_set_discriminator
    THEN lnTry(it, ReadErrorFrom(leb128_read_u64(data)),
               LAMBDA i, x : LnOk([i EXCEPT !.line.discriminator = x.val], r))
    ELSE LnOk(it, r)

\* next_extended with the sub-opcode and its operands read from r
LineIterator_next_extended_unbounded(it, r) ==
    lnTry(it, ReadErrorFrom(leb128_read_u64(r)), LAMBDA i, len :
        IF GtLen(len.val, Len(len.rest)) THEN LnErr(i, len.rest, "Invalid")
        ELSE lnTry(i, read_u8(len.rest), LAMBDA j, opcode :
                LineIterator_next_extended_opcode(j, opcode.val, opcode.rest,
                                                  Drop(len.rest, AsUsize(len.val)))))

LineIterator_next_extended(it, r) ==
    lnTry(it, ReadErrorFrom(leb128_read_u64(r)), LAMBDA i, len :
        IF GtLen(len.val, Len(len.rest)) THEN LnErr(i, len.rest, "Invalid")
        ELSE lnTry(i, read_u8(SubSeq(len.rest, 1, AsUsize(len.val))), LAMBDA j, opcode :
                LineIterator_next_extended_opcode(j, opcode.val, opcode.rest,
                                                  Drop(len.rest, AsUsize(len.val)))))

\* self.copy = true after x
LineIterator_set_copy(x) == IF x.err # "ok" THEN x ELSE [x EXCEPT !.it.copy = TRUE]

\* the arm of next_opcode for the opcodes without a name
LineIterator_next_opcode_other(it, opcode, r, checked) ==
    IF opcode < it.program.opcode_base
    THEN IF opcode - 1 >= Len(it.program.standard_opcode_lengths) THEN LnErr(it, r, "Invalid")
         ELSE LineIterator_skip_operands(it, r, it.program.standard_opcode_lengths[opcode])
    ELSE LineIterator_set_copy(LineIterator_advance_special(it, opcode, r, checked))

\* next_opcode after the opcode was read
LineIterator_next_opcode_match(it, opcode, r, checked) ==
    CASE opcode = DW_LNS_extended -> LineIterator_next_extended(it, r)
      [] opcode = DW_LNS_copy -> LnOk([it EXCEPT !.copy = TRUE], r)
      [] opcode = DW_LNS_advance_pc ->
            lnTry(it, ReadErrorFrom(leb128_read_u64(r)), LAMBDA i, x :
                LineIterator_advance_pc(i, x.val, x.rest, checked))
      [] opcode = DW_LNS_advance_line ->
            lnTry(it, ReadErrorFrom(leb128_read_i64(r)), LAMBDA i, x :
                LnOk(LineIterator_advance_line(i, x.val), x.rest))
      [] opcode = DW_LNS_set_file ->
            lnTry(it, ReadErrorFrom(leb128_read_u64(r)), LAMBDA i, x :
                LnOk([i EXCEPT !.line.file = x.val], x.rest))
      [] opcode = DW_LNS_set_column ->
            lnTry(it, ReadErrorFrom(leb128_read_u64(r)), LAMBDA i, x :
                LnOk([i EXCEPT !.line.column = x.val], x.rest))
      [] opcode = DW_LNS_negate_stmt ->
            LnOk([it EXCEPT !.line.statement = ~it.line.statement], r)
      [] opcode = DW_LNS_set_basic_block -> LnOk([it EXCEPT !.line.basic_block = TRUE], r)
      [] opcode = DW_LNS_const_add_pc ->
            LineIterator_advance_pc(
                it, U64((255 - it.program.opcode_base) \div it.program.line_range), r, checked)
      [] opcode = DW_LNS_fixed_advance_pc ->
            lnTry(it, Endian_read_u16(r, it.program.endian), LAMBDA i, x :
                LineIterator_add_address([i EXCEPT !.line.operation = U64(0)],
                                         U64(x.val), x.rest, checked))
      [] opcode = DW_LNS_set_prologue_end -> LnOk([it EXCEPT !.line.prologue_end = TRUE], r)
      [] opcode = DW_LNS_set_epilogue_begin ->
            LnOk([it EXCEPT !.line.epilogue_begin = TRUE], r)
      [] opcode = DW_LNS_set_isa ->
            lnTry(it, ReadErrorFrom(leb128_read_u64(r)), LAMBDA i, x :
                LnOk([i EXCEPT !.line.isa = x.val], x.rest))
      [] OTHER -> LineIterator_next_opcode_other(it, opcode, r, checked)

LineIterator_next_opcode(it, r, checked) ==
    lnTry(it, read_u8(r), LAMBDA i, x :
        LineIterator_next_opcode_match(i, x.val, x.rest, checked))

\* The line at the start of next, never a new one
LineIterator_next_line_no_reset(it) ==
    [it EXCEPT !.line.basic_block = FALSE, !.line.prologue_end = FALSE,
               !.line.epilogue_begin = FALSE, !.line.discriminator = U64(0)]
\* The line at the start of next, the file table being the first file after
\* the end of a sequence
LineIterator_next_line_reset_files(it) ==
    IF it.line.sequence_end
    THEN [it EXCEPT !.line = Line_new(it.program.default_statement),
                    !.program.files = <<Head(@)>>]
    ELSE [it EXCEPT !.line.basic_block = FALSE, !.line.prologue_end = FALSE,
                    !.line.epilogue_begin = FALSE, !.line.discriminator = U64(0)]
\* The line at the start of next, with the discriminator kept
LineIterator_next_line_keep_discriminator(it) ==
    IF it.line.sequence_end
    THEN [it EXCEPT !.line = Line_new(it.program.default_statement)]
    ELSE [it EXCEPT !.line.basic_block = FALSE, !.line.prologue_end = FALSE,
                    !.line.epilogue_begin = FALSE]
\* The line at the start of next: a new one after the end of a sequence,
\* else the flags of one row cleared
LineIterator_next_line(it) ==
    IF it.line.sequence_end
    THEN [it EXCEPT !.line = Line_new(it.program.default_statement)]
    ELSE [it EXCEPT !.line.basic_block = FALSE, !.line.prologue_end = FALSE,
                    !.line.epilogue_begin = FALSE, !.line.discriminator = U64(0)]

\* the loop of next, self.data being left alone when a row is returned
RECURSIVE LineIterator_next_loop_keep_data(_, _)
LineIterator_next_loop_keep_data(x, checked) ==
    IF x.err # "ok" THEN [it |-> x.it, res |-> x.err]
    ELSE IF x.it.copy
    THEN [it |-> [x.it EXCEPT !.copy = FALSE], res |-> "some"]
    ELSE LineIterator_next_loop_keep_data(
            LineIterator_next_opcode([x.it EXCEPT !.data = x.r], x.r, checked), checked)

\* the loop of next; x is the result of next_opcode
RECURSIVE LineIterator_next_loop(_, _)
LineIterator_next_loop(x, checked) ==
    IF x.err # "ok" THEN [it |-> x.it, res |-> x.err]
    ELSE IF x.it.copy
    THEN [it |-> [x.it EXCEPT !.data = x.r, !.copy = FALSE], res |-> "some"]
    ELSE LineIterator_next_loop(
            LineIterator_next_opcode([x.it EXCEPT !.data = x.r], x.r, checked), checked)

\* The iterator after the call and res: "some" (the row is the iterator's
\* line), "none", or the error.
LineIterator_next(it, checked) ==
    IF Len(it.data) = 0 THEN [it |-> it, res |-> "none"]
    ELSE LineIterator_next_loop(
            LineIterator_next_opcode(LineIterator_next_line(it), it.data, checked), checked)

\* ------------------------------------------------------------------------
\* Bounds and input sets.
MaxBodyLen == 2
MaxUnits == 2

Endians == {"little", "big"}

RECURSIVE SeqsUpTo(_, _)
SeqsUpTo(S, n) ==
    IF n = 0 THEN {<<>>}
    ELSE LET shorter == SeqsUpTo(S, n - 1)
         IN  shorter \cup {Append(s, x) : s \in {t \in shorter : Len(t) = n - 1}, x \in S}

OffsetValues == {U64(0), U64(18), <<255, 255, 255, 255, 0, 0, 0, 0>>,
                 <<0, 0, 0, 0, 1, 0, 0, 0>>, <<255, 255, 255, 255, 255, 255, 255, 255>>}

UnitBodies == SeqsUpTo({0, 1, 255}, MaxBodyLen)

RoundTripUnits ==
    {[kind |-> k,
      unit |-> [offset |-> o, endian |-> e, version |-> v, address_size |-> a,
                offset_size |-> os, abbrev_offset |-> ao, data |-> d,
                type_signature |-> ts, type_offset |-> to]] :
        k \in {"cu", "tu"}, o \in {0, 7}, e \in Endians, v \in 2..4, a \in {4, 8, 255},
        os \in {2, 4, 8}, ao \in OffsetValues, d \in UnitBodies,
        ts \in {U64(0), <<1, 2, 3, 4, 5, 6, 7, 8>>},
        to \in {U64(0), <<0, 0, 0, 128, 0, 0, 0, 0>>, <<0, 0, 0, 0, 0, 0, 0, 128>>}}

\* Attribute round trip inputs.
MaxBlockLen == 2
LongBlockLen == 256

\* The form table: the variant each form decodes to.
FormTable ==
    {<<DW_FORM_addr, "Address">>, <<DW_FORM_block1, "Block">>, <<DW_FORM_block2, "Block">>,
     <<DW_FORM_block4, "Block">>, <<DW_FORM_block, "Block">>, <<DW_FORM_data1, "Data1">>,
     <<DW_FORM_data2, "Data2">>, <<DW_FORM_data4, "Data4">>, <<DW_FORM_data8, "Data8">>,
     <<DW_FORM_udata, "UData">>, <<DW_FORM_sdata, "SData">>, <<DW_FORM_flag, "Flag">>,
     <<DW_FORM_flag_present, "Flag">>, <<DW_FORM_string, "String">>,
     <<DW_FORM_strp, "StringOffset">>, <<DW_FORM_ref1, "Ref">>, <<DW_FORM_ref2, "Ref">>,
     <<DW_FORM_ref4, "Ref">>, <<DW_FORM_ref8, "Ref">>, <<DW_FORM_ref_udata, "Ref">>,
     <<DW_FORM_ref_addr, "RefAddress">>, <<DW_FORM_ref_sig8, "RefSig">>,
     <<DW_FORM_sec_offset, "SecOffset">>, <<DW_FORM_exprloc, "ExprLoc">>}

U64Values ==
    {U64(0), U64(1), U64(127), U64(128), U64(255), U64(256), U64(65535), U64(65536),
     <<103, 69, 35, 1, 0, 0, 0, 0>>, <<255, 255, 255, 255, 0, 0, 0, 0>>,
     <<0, 0, 0, 0, 1, 0, 0, 0>>, <<239, 205, 171, 137, 103, 69, 35, 1>>,
     <<255, 255, 255, 255, 255, 255, 255, 127>>, <<0, 0, 0, 0, 0, 0, 0, 128>>,
     <<153, 186, 220, 254, 255, 255, 255, 255>>, <<255, 255, 255, 255, 255, 255, 255, 255>>}
U32Values == {Trunc(v, 4) : v \in U64Values}
U16Values == {0, 1, 255, 256, 291, 65535}
U8Values == {0, 1, 127, 128, 255}
ByteBlocks ==
    SeqsUpTo({0, 1, 255}, MaxBlockLen)
        \cup {[i \in 1..128 |-> 17], [i \in 1..LongBlockLen |-> 17]}

ValuesOf(variant) ==
    CASE variant \in {"Address", "StringOffset", "Ref", "RefAddress", "RefSig", "SecOffset",
                      "Data8", "UData", "SData"} -> U64Values
      [] variant = "Data4" -> U32Values
      [] variant = "Data2" -> U16Values
      [] variant = "Data1" -> U8Values
      [] variant = "Flag" -> BOOLEAN
      [] variant \in {"Block", "ExprLoc", "String"} -> ByteBlocks

AttrUnits ==
    {[NoUnit EXCEPT !.endian = e, !.version = v, !.address_size = a, !.offset_size = os] :
        e \in Endians, v \in 2..4, a \in {4, 8}, os \in {4, 8}}

\* The inputs with the form and variant of a row fv of the form table
AttrInputs(fv) ==
    {[kind |-> "attr", form |-> fv[1], value |-> AttributeData(fv[2], x), unit |-> u,
      indirect |-> i] : x \in ValuesOf(fv[2]), u \in AttrUnits, i \in BOOLEAN}

\* Abbreviation round trip inputs.
MaxAbbrevs == 2

AbbrevAttributeLists ==
    {<<>>,
     <<[at |-> DW_AT_name, form |-> DW_FORM_strp]>>,
     <<[at |-> DW_AT_sibling, form |-> DW_FORM_ref4], [at |-> 16383, form |-> 65535]>>,
     <<[at |-> DW_AT_null, form |-> DW_FORM_null]>>,
     <<[at |-> DW_AT_null, form |-> DW_FORM_string], [at |-> 300, form |-> DW_FORM_null]>>}

AbbrevPool ==
    {[code |-> c, tag |-> tc[1], children |-> tc[2], attributes |-> a] :
        c \in {U64(0), U64(1), U64(128), <<255, 255, 255, 255, 255, 255, 255, 255>>},
        tc \in {<<DW_TAG_namespace, TRUE>>, <<16649, FALSE>>},
        a \in AbbrevAttributeLists}

AbbrevVecs == {[kind |-> "abbrev", vec |-> v] : v \in SeqsUpTo(AbbrevPool, MaxAbbrevs)}

\* Entry round trip inputs: bodies of raw entries for the table DieAbbrevs.
MaxEntries == 2

DieAbbrevs ==
    {[code |-> U64(1), tag |-> DW_TAG_namespace, children |-> FALSE,
      attributes |-> <<[at |-> DW_AT_name, form |-> DW_FORM_string],
                       [at |-> 60, form |-> DW_FORM_flag]>>],
     [code |-> U64(2), tag |-> 17, children |-> TRUE,
      attributes |-> <<[at |-> 11, form |-> DW_FORM_udata]>>],
     [code |-> U64(3), tag |-> 52, children |-> FALSE,
      attributes |-> <<[at |-> 28, form |-> DW_FORM_sdata],
                       [at |-> 2, form |-> DW_FORM_block1]>>],
     [code |-> U64(4), tag |-> 52, children |-> FALSE,
      attributes |-> <<[at |-> 28, form |-> DW_FORM_indirect]>>],
     [code |-> U64(5), tag |-> 46, children |-> TRUE,
      attributes |-> <<[at |-> DW_AT_sibling, form |-> DW_FORM_ref4],
                       [at |-> 17, form |-> DW_FORM_addr],
                       [at |-> 63, form |-> DW_FORM_flag_present]>>]}

\* A raw entry: its bytes, whether its LEB128 fields are canonical, whether
\* it uses DW_FORM_indirect.
Piece(bytes, canonical, indirect) ==
    [bytes |-> bytes, canonical |-> canonical, indirect |-> indirect]

DiePieces ==
    {Piece(<<0>>, TRUE, FALSE), Piece(<<128, 0>>, FALSE, FALSE),
     Piece(<<129, 0, 65, 0, 1>>, FALSE, FALSE),
     Piece(<<4, 11, 7>>, TRUE, TRUE),
     Piece(<<5, 20, 0, 0, 0, 1, 2, 3, 4>>, TRUE, FALSE)}
        \cup {Piece(<<1>> \o s \o <<f>>, TRUE, FALSE) : s \in {<<0>>, <<65, 0>>}, f \in {0, 1, 2}}
        \cup {Piece(<<2>> \o u[1], u[2], FALSE) :
                u \in {<<<<5>>, TRUE>>, <<<<128, 1>>, TRUE>>, <<<<133, 0>>, FALSE>>}}
        \cup {Piece(<<3>> \o v[1] \o b, v[2], FALSE) :
                v \in {<<<<127>>, TRUE>>, <<<<255, 0>>, TRUE>>, <<<<255, 127>>, FALSE>>},
                b \in {<<0>>, <<1, 9>>}}

RECURSIVE PieceBytes(_)
PieceBytes(ps) == IF ps = <<>> THEN <<>> ELSE Head(ps).bytes \o PieceBytes(Tail(ps))

DieBodies ==
    {[kind |-> "die", body |-> PieceBytes(ps),
      canonical |-> \A i \in 1..Len(ps) : ps[i].canonical,
      indirect |-> \E i \in 1..Len(ps) : ps[i].indirect] :
        ps \in SeqsUpTo(DiePieces, MaxEntries)}

\* The unit of the entries
DieUnit(endian, offset) ==
    [NoUnit EXCEPT !.endian = endian, !.offset = offset, !.version = 4,
                   !.address_size = 4, !.offset_size = 4]

\* Cursor inputs: well-formed entry streams, given as sequences of tokens:
\* "leaf" (no children), "parent" (children, no DW_AT_sibling), "sib"
\* (children and a DW_AT_sibling reference to the entry after the null that
\* ends its children), "null".
MaxTokens == 5

CursorAbbrevs ==
    {[code |-> U64(1), tag |-> DW_TAG_namespace, children |-> FALSE,
      attributes |-> <<[at |-> DW_AT_name, form |-> DW_FORM_data1]>>],
     [code |-> U64(2), tag |-> DW_TAG_namespace, children |-> TRUE, attributes |-> <<>>],
     [code |-> U64(3), tag |-> DW_TAG_namespace, children |-> TRUE,
      attributes |-> <<[at |-> DW_AT_sibling, form |-> DW_FORM_ref1]>>]}

Tokens == {"leaf", "parent", "sib", "null"}
TokenSize(t) == IF t \in {"leaf", "sib"} THEN 2 ELSE 1

\* The bytes before token i
RECURSIVE TokOffset(_, _)
TokOffset(toks, i) ==
    IF i <= 1 THEN 0 ELSE TokOffset(toks, i - 1) + TokenSize(toks[i - 1])

\* The nesting depth after the first k tokens, and the depth token i sits at
DepthAfter(toks, k) ==
    Cardinality({j \in 1..k : toks[j] \in {"parent", "sib"}})
        - Cardinality({j \in 1..k : toks[j] = "null"})
EntryDepth(toks, i) == DepthAfter(toks, i - 1)

\* The first entry after token i that sits at the depth of token i or above
\* it (for a null: the entry one level up); Len(toks) + 1 if there is none.
NextSiblingIndex(toks, i) ==
    IF \E j \in (i + 1)..Len(toks) : EntryDepth(toks, j) <= EntryDepth(toks, i)
    THEN CHOOSE j \in (i + 1)..Len(toks) :
            /\ EntryDepth(toks, j) <= EntryDepth(toks, i)
            /\ \A k \in (i + 1)..(j - 1) : EntryDepth(toks, k) > EntryDepth(toks, i)
    ELSE Len(toks) + 1

\* The children of token i are ended by a null
Terminated(toks, i) ==
    \E m \in (i + 1)..Len(toks) : DepthAfter(toks, m) = EntryDepth(toks, i)

WellFormedToks(toks) ==
    /\ \A k \in 1..Len(toks) : DepthAfter(toks, k) >= 0
    /\ \A i \in 1..Len(toks) : toks[i] = "sib" => Terminated(toks, i)

\* The entry of token i in a unit whose entries start at offset start
TokenDie(toks, i, unit, start) ==
    CASE toks[i] = "null" -> Die_null(start + TokOffset(toks, i))
      [] toks[i] = "leaf" ->
            [offset |-> start + TokOffset(toks, i), code |-> U64(1),
             tag |-> DW_TAG_namespace, children |-> FALSE,
             attributes |-> <<[at |-> DW_AT_name, data |-> AttributeData("Data1", i)]>>]
      [] toks[i] = "parent" ->
            [offset |-> start + TokOffset(toks, i), code |-> U64(2),
             tag |-> DW_TAG_namespace, children |-> TRUE, attributes |-> <<>>]
      [] toks[i] = "sib" ->
            [offset |-> start + TokOffset(toks, i), code |-> U64(3),
             tag |-> DW_TAG_namespace, children |-> TRUE,
             attributes |->
                <<[at |-> DW_AT_sibling,
                   data |-> AttributeData("Ref",
                        U64(start + TokOffset(toks, NextSiblingIndex(toks, i))
                                - unit.offset))]>>]

RECURSIVE WriteEntries(_, _, _)
WriteEntries(entries, unit, abbrev) ==
    IF entries = <<>> THEN <<>>
    ELSE Die_write(Head(entries), unit, abbrev).out \o WriteEntries(Tail(entries), unit, abbrev)

CursorInput(toks, unit) ==
    [kind |-> "cursor", toks |-> toks, unit |-> unit,
     start |-> CompilationUnit_data_offset(unit),
     entries |-> [i \in 1..Len(toks) |->
                    TokenDie(toks, i, unit, CompilationUnit_data_offset(unit))],
     body |-> WriteEntries([i \in 1..Len(toks) |->
                              TokenDie(toks, i, unit, CompilationUnit_data_offset(unit))],
                           unit, CursorAbbrevs)]

CursorToks == {toks \in SeqsUpTo(Tokens, MaxTokens) : WellFormedToks(toks)}
CursorUnits == {DieUnit("little", 0), DieUnit("big", 7)}
\* The tree is walked in a unit that does not start the section
TreeUnits == {DieUnit("big", 7)}

\* LEB128 inputs: values to write and read back, and raw encodings to read.
\* 2^k and 2^k - 1 as u64 digits
Pow2(k) == [i \in 1..8 |-> IF i = (k \div 8) + 1 THEN 2 ^ (k % 8) ELSE 0]
LowOnes(k) ==
    [i \in 1..8 |-> IF i <= k \div 8 THEN 255
                    ELSE IF i = (k \div 8) + 1 THEN (2 ^ (k % 8)) - 1 ELSE 0]
\* -(2^62) as i64 digits
NegPow62 == <<0, 0, 0, 0, 0, 0, 0, 192>>

Leb64Digits == {0, 128, 255}
Leb64Values ==
    {<<a, b, c, d, e, f, g, h>> :
        a \in Leb64Digits, b \in Leb64Digits, c \in Leb64Digits, d \in Leb64Digits,
        e \in Leb64Digits, f \in Leb64Digits, g \in Leb64Digits, h \in Leb64Digits}
    \cup {Pow2(k) : k \in 0..63} \cup {LowOnes(k) : k \in 0..64} \cup {NegPow62}

U16Max == 65535
LebU16Values == 0..U16Max

\* Raw encodings: k bytes with the continuation bit, then up to two bytes
MaxContinuation == 11
LebContinuationBytes == {128, 129, 255}
LebLastBytes == {0, 1, 2, 63, 64, 126, 127, 128, 255}
LebEncodings ==
    {[i \in 1..k |-> c] \o t :
        c \in LebContinuationBytes, k \in 0..MaxContinuation, t \in SeqsUpTo(LebLastBytes, 2)}

\* Line program inputs: a header configuration h and a program given as a
\* sequence of instructions, each a named byte string.
LineConfig(endian, version, address_size, step, range, statement, base, line_range,
           opcode_base, lengths) ==
    [endian |-> endian, version |-> version, address_size |-> address_size,
     address_step |-> step, operation_range |-> range, default_statement |-> statement,
     line_base |-> base, line_range |-> line_range, opcode_base |-> opcode_base,
     lengths |-> lengths]

\* The configurations whose programs are run: one with an unknown standard
\* opcode 13, one with two operations per instruction and opcode_base 10
LineRunConfigs ==
    {LineConfig("little", 4, 8, 1, 1, 1, 251, 14, 14, <<0, 1, 1, 1, 1, 0, 0, 0, 1, 0, 0, 1, 1>>),
     LineConfig("big", 4, 4, 2, 2, 0, 253, 12, 10, <<0, 1, 1, 1, 1, 0, 0, 0, 1>>)}

\* The configurations that are only parsed: zero and nonzero fields, in
\* every version
LineHeaderConfigs ==
    {LineConfig("little", v, 4, step, range, 1, 251, line_range, opcode_base,
                [i \in 1..(opcode_base - 1) |-> 0]) :
        v \in 1..5, step \in {0, 1}, range \in {0, 1, 2}, line_range \in {0, 14},
        opcode_base \in {0, 1, 13}}

LineHeaderBytes(h) ==
    <<h.address_step>> \o (IF h.version >= 4 THEN <<h.operation_range>> ELSE <<>>)
        \o <<h.default_statement, h.line_base, h.line_range, h.opcode_base>>
        \o h.lengths \o <<0>> \o <<97, 0, 0, 0, 0>> \o <<0>>

LineBodyBytes(h, program) ==
    Endian_write_u16(h.version, h.endian)
        \o Endian_write_u32(U32(Len(LineHeaderBytes(h))), h.endian)
        \o LineHeaderBytes(h) \o program

LineUnitBytes(h, program) ==
    Endian_write_u32(U32(Len(LineBodyBytes(h, program))), h.endian) \o LineBodyBytes(h, program)

LineInstrBytes(name, h) ==
    CASE name = "copy" -> <<DW_LNS_copy>>
      [] name = "advance_pc" -> <<DW_LNS_advance_pc, 3>>
      [] name = "advance_pc_max" ->
            <<DW_LNS_advance_pc, 255, 255, 255, 255, 255, 255, 255, 255, 255, 1>>
      [] name = "advance_line" -> <<DW_LNS_advance_line, 127>>
      [] name = "set_column" -> <<DW_LNS_set_column, 7>>
      [] name = "negate_stmt" -> <<DW_LNS_negate_stmt>>
      [] name = "set_basic_block" -> <<DW_LNS_set_basic_block>>
      [] name = "const_add_pc" -> <<DW_LNS_const_add_pc>>
      [] name = "fixed_advance_pc" -> <<DW_LNS_fixed_advance_pc, 52, 18>>
      [] name = "set_prologue_end" -> <<DW_LNS_set_prologue_end>>
      [] name = "set_epilogue_begin" -> <<DW_LNS_set_epilogue_begin>>
      [] name = "unknown" -> <<13, 1>>
      [] name = "special" -> <<200>>
      [] name = "end_sequence" -> <<DW_LNS_extended, 1, DW_LNE_end_sequence>>
      [] name = "set_address" ->
            <<DW_LNS_extended, 1 + h.address_size, DW_LNE_set_address>>
                \o write_address(h.endian, h.address_size, U64(4096)).out
      [] name = "set_discriminator" -> <<DW_LNS_extended, 2, DW_LNE_set_discriminator, 9>>
      [] name = "define_file" -> <<DW_LNS_extended, 6, DW_LNE_define_file, 98, 0, 1, 0, 0>>
      [] name = "invalid_extended" -> <<DW_LNS_extended, 1, 0>>
      [] name = "define_file_short" -> <<DW_LNS_extended, 3, DW_LNE_define_file, 98, 0>>

\* The instructions of the programs of a configuration: the PC, line and
\* flag opcodes with two operations per instruction, the others with one
LineInstrs(h) ==
    IF h.opcode_base > 13
    THEN {"copy", "special", "unknown", "set_column", "set_basic_block",
          "set_epilogue_begin", "set_address", "define_file", "invalid_extended"}
    ELSE {"copy", "advance_pc", "advance_pc_max", "advance_line", "negate_stmt",
          "const_add_pc", "fixed_advance_pc", "set_prologue_end", "special",
          "end_sequence", "set_discriminator"}

MaxInstrs == 3

RECURSIVE LineProgramBytes(_, _)
LineProgramBytes(instrs, h) ==
    IF instrs = <<>> THEN <<>>
    ELSE LineInstrBytes(Head(instrs), h) \o LineProgramBytes(Tail(instrs), h)

LineInput(h, instrs) ==
    [kind |-> "line", h |-> h, instrs |-> instrs, program |-> LineProgramBytes(instrs, h),
     unit |-> LineUnitBytes(h, LineProgramBytes(instrs, h))]

\* Entry write inputs: entries built by the caller for the table DieAbbrevs,
\* consistent with their abbreviation or not.  The attributes of an entry are
\* picked from WriteAttributes by index.
WriteAttributes ==
    <<[at |-> DW_AT_name, data |-> AttributeData("String", <<65>>)],
      [at |-> 60, data |-> AttributeData("Flag", TRUE)],
      [at |-> 60, data |-> AttributeData("Data1", 1)],
      [at |-> 11, data |-> AttributeData("UData", U64(5))],
      [at |-> 11, data |-> AttributeData("SData", U64(5))],
      [at |-> 63, data |-> AttributeData("Flag", TRUE)],
      [at |-> 63, data |-> AttributeData("Flag", FALSE)],
      [at |-> DW_AT_sibling, data |-> AttributeData("Ref", U64(20))],
      [at |-> 17, data |-> AttributeData("Address", U64(4096))],
      [at |-> 17, data |-> AttributeData("Data4", U32(4096))]>>

MaxWriteAttrs == 3

WriteCodes == {U64(0), U64(1), U64(2), U64(5), U64(6)}

WriteEntry(code, children, picks) ==
    [kind |-> "entry",
     die |-> [offset |-> 0, code |-> code, tag |-> DW_TAG_namespace, children |-> children,
              attributes |-> [i \in 1..Len(picks) |-> WriteAttributes[picks[i]]]],
     unit |-> DieUnit("little", 0)]

\* Failing reads: bodies of a few raw entries, followed by an entry that
\* cannot be read (an unknown code, a form that is not supported) or cut
\* short.
ReadPieces ==
    {Piece(<<0>>, TRUE, FALSE), Piece(<<1, 65, 0, 1>>, TRUE, FALSE),
     Piece(<<2, 128, 1>>, TRUE, FALSE), Piece(<<4, 11, 7>>, TRUE, TRUE),
     Piece(<<5, 20, 0, 0, 0, 1, 2, 3, 4>>, TRUE, FALSE)}
ReadTails == {<<>>, <<6, 1>>, <<4, 0>>, <<2, 128>>}
ReadCuts == {0, 1, 3}
ReadBodies ==
    {[kind |-> "die", body |-> SubSeq(PieceBytes(ps) \o tail, 1,
                                      Len(PieceBytes(ps) \o tail) - cut)] :
        ps \in SeqsUpTo(ReadPieces, MaxEntries), tail \in ReadTails, cut \in ReadCuts}

\* Sibling inputs: entry streams, well-formed or not, whose entries with
\* children carry DW_AT_sibling values of every kind.  An entry is named by
\* the value of its attribute: "sib_back" (the unit's first byte),
\* "sib_self" (the entry itself), "sib_here" (the byte after the entry,
\* where the cursor stands), "sib_fwd" (one byte further), "sib_end" (the
\* end of the input), "sib_past" (one byte beyond it), "sib_huge" (u64::MAX,
\* as DW_FORM_ref8), "sib_data" (a DW_FORM_data1 value, followed by a second
\* DW_AT_sibling that is a forward reference).
SiblingAbbrevs ==
    {[code |-> U64(1), tag |-> DW_TAG_namespace, children |-> FALSE,
      attributes |-> <<[at |-> DW_AT_name, form |-> DW_FORM_data1]>>],
     [code |-> U64(2), tag |-> DW_TAG_namespace, children |-> TRUE, attributes |-> <<>>],
     [code |-> U64(3), tag |-> DW_TAG_namespace, children |-> TRUE,
      attributes |-> <<[at |-> DW_AT_sibling, form |-> DW_FORM_ref1]>>],
     [code |-> U64(4), tag |-> DW_TAG_namespace, children |-> TRUE,
      attributes |-> <<[at |-> DW_AT_sibling, form |-> DW_FORM_data1],
                       [at |-> DW_AT_sibling, form |-> DW_FORM_ref1]>>],
     [code |-> U64(5), tag |-> DW_TAG_namespace, children |-> TRUE,
      attributes |-> <<[at |-> DW_AT_sibling, form |-> DW_FORM_ref8]>>]}

SiblingTokens ==
    {"leaf", "parent", "null", "sib_back", "sib_self", "sib_here", "sib_fwd", "sib_end",
     "sib_past", "sib_huge", "sib_data"}
SiblingTokenSize(t) ==
    CASE t \in {"parent", "null"} -> 1
      [] t = "sib_huge" -> 9
      [] t = "sib_data" -> 3
      [] OTHER -> 2

RECURSIVE SiblingTokOffset(_, _)
SiblingTokOffset(toks, i) ==
    IF i <= 1 THEN 0 ELSE SiblingTokOffset(toks, i - 1) + SiblingTokenSize(toks[i - 1])

\* The bytes of token i; off is its offset and end the offset of the end of
\* the input, both from the start of the unit
SiblingTokenBytes(t, off, end) ==
    CASE t = "leaf" -> <<1, 7>>
      [] t = "parent" -> <<2>>
      [] t = "null" -> <<0>>
      [] t = "sib_back" -> <<3, 0>>
      [] t = "sib_self" -> <<3, off>>
      [] t = "sib_here" -> <<3, off + 2>>
      [] t = "sib_fwd" -> <<3, off + 3>>
      [] t = "sib_end" -> <<3, end>>
      [] t = "sib_past" -> <<3, end + 1>>
      [] t = "sib_huge" -> <<5, 255, 255, 255, 255, 255, 255, 255, 255>>
      [] t = "sib_data" -> <<4, 9, off + 4>>

RECURSIVE SiblingBytes(_, _, _, _)
SiblingBytes(toks, i, first, end) ==
    IF i > Len(toks) THEN <<>>
    ELSE SiblingTokenBytes(toks[i], first + SiblingTokOffset(toks, i), end)
            \o SiblingBytes(toks, i + 1, first, end)

MaxSiblingTokens == 3
MaxSiblingCalls == 3

\* The stream of the tokens in the unit, with cut bytes missing at the end
SiblingInput(toks, unit, cut) ==
    [kind |-> "sibling", toks |-> toks, unit |-> unit, cut |-> cut,
     start |-> CompilationUnit_data_offset(unit),
     body |-> SiblingBytes(toks, 1, CompilationUnit_data_offset(unit) - unit.offset,
                           CompilationUnit_data_offset(unit) - unit.offset
                                + SiblingTokOffset(toks, Len(toks) + 1) - cut)]

\* Extended opcode inputs: a program of an optional special opcode, one
\* extended opcode (byte 0, a length, and body bytes that the length may
\* cover in part, wholly, or beyond) and a tail of copy opcodes.  n is the
\* encoded length, -1 for the u64 maximum.
MaxRegion == 9

ExtendedLengths ==
    {[n |-> n, enc |-> <<n>>] : n \in 0..MaxRegion}
        \cup {[n |-> n, enc |-> <<128 + n, 0>>] : n \in 0..MaxRegion}
        \cup {[n |-> -1, enc |-> <<255, 255, 255, 255, 255, 255, 255, 255, 255, 1>>]}

ExtendedBodies ==
    {<<>>, <<0, 1>>, <<DW_LNE_end_sequence>>,
     <<DW_LNE_set_address, 0, 16, 0, 0, 0, 0, 0, 0>>,
     <<DW_LNE_define_file, 98, 0, 1, 0, 0>>,
     <<DW_LNE_set_discriminator, 9>>, <<DW_LNE_set_discriminator, 128, 9>>,
     <<5, 7, 7>>, <<128, 7>>, <<255>>}

ExtendedTails == {<<>>, <<DW_LNS_copy>>, <<DW_LNS_copy, DW_LNS_copy>>}

ExtendedInput(h, pre, len, body, tail) ==
    [kind |-> "extended", h |-> h, pre |-> pre, len |-> len, body |-> body, tail |-> tail,
     program |-> pre \o <<DW_LNS_extended>> \o len.enc \o body \o tail,
     unit |-> LineUnitBytes(h, pre \o <<DW_LNS_extended>> \o len.enc \o body \o tail)]

\* Attribute write inputs: a value of every variant with every form,
\* corresponding or not, in units of supported and unsupported address and
\* offset sizes.  The values are picked from WriteValues by index.
WriteValues ==
    <<AttributeData("Address", U64(4096)), AttributeData("Block", <<1, 2>>),
      AttributeData("Data1", 7), AttributeData("Data2", 4660),
      AttributeData("Data4", U32(4096)), AttributeData("Data8", U64(4096)),
      AttributeData("UData", U64(300)), AttributeData("SData", U64(5)),
      AttributeData("Flag", TRUE), AttributeData("Flag", FALSE),
      AttributeData("String", <<65>>), AttributeData("StringOffset", U64(9)),
      AttributeData("Ref", U64(20)), AttributeData("RefAddress", U64(4096)),
      AttributeData("RefSig", U64(77)), AttributeData("SecOffset", U64(9)),
      AttributeData("ExprLoc", <<3>>), AttributeData_Null>>

WriteForms == {fv[1] : fv \in FormTable} \cup {DW_FORM_null, DW_FORM_indirect, 65535}

WriteUnits ==
    {[NoUnit EXCEPT !.endian = e, !.version = v, !.address_size = a, !.offset_size = os] :
        e \in Endians, v \in {2, 4}, a \in {2, 4, 8}, os \in {2, 4, 8}}

WriteInput(form, k, unit, indirect) ==
    [kind |-> "attr", form |-> form, value |-> WriteValues[k], unit |-> unit,
     indirect |-> indirect]

\* File table inputs: programs of the opcodes that emit rows, end a
\* sequence and define files (one of them in a region that is too short),
\* iterated by up to MaxIterators iterators of one program.
FileInstrs == {"copy", "special", "end_sequence", "define_file", "define_file_short"}
MaxFileInstrs == 3
MaxIterators == 2

\* Progress inputs: programs of any bytes of ProgressBytes, which are
\* opcodes with and without operands, extended opcodes and their lengths,
\* LEB128 continuations and special opcodes.
ProgressBytes == {0, 1, 2, 3, 13, 128, 200}
MaxProgram == 4

ProgressInput(h, program) ==
    [kind |-> "program", h |-> h, instrs |-> <<>>, program |-> program,
     unit |-> LineUnitBytes(h, program)]

\* ------------------------------------------------------------------------
\* State.
VARIABLES
    inp,    \* the input: the value to write, or the body to read
    wres,   \* round trips: the result of the write
    rres,   \* round trips: the result of reading the written bytes
    pc,     \* round trips: "init", "written", "read"; entries: "next", "write", "done"
    sect,   \* unit iteration: the section's bytes
    iter,   \* unit iteration: the unit iterator
    last,   \* unit iteration: the last call, [before, res, unit]
    dit,    \* entries: the DieIterator
    ret,    \* entries: the last call, [op, before, res, reads]
    calls,  \* entries: the operations called so far
    tree,   \* tree: the DieTree
    stack   \* tree: the live DieTreeIterators, innermost last, [it, parent, yielded]

rtVars == <<inp, wres, rres, pc>>
iterVars == <<sect, iter, last>>
curVars == <<dit, ret, calls>>
treeVars == <<tree, stack>>
vars == <<inp, wres, rres, pc, sect, iter, last, dit, ret, calls, tree, stack>>

RtIdle == inp = <<>> /\ wres = WOk(<<>>) /\ rres = Err("none", <<>>) /\ pc = "idle"
IterIdle == sect = <<>> /\ iter = <<>> /\ last = <<>>
CurIdle == dit = <<>> /\ ret = <<>> /\ calls = <<>>
TreeIdle == tree = <<>> /\ stack = <<>>

\* ------------------------------------------------------------------------
\* Unit round trip: write a unit, read the written bytes.
InitUnitRT ==
    /\ inp \in {x \in RoundTripUnits : x.kind = "cu" =>
                    (IsZero(x.unit.type_signature) /\ IsZero(x.unit.type_offset))}
    /\ wres = WOk(<<>>)
    /\ rres = Err("none", <<>>)
    /\ pc = "init"
    /\ IterIdle /\ CurIdle /\ TreeIdle

CUWrite ==
    /\ pc = "init" /\ inp.kind = "cu"
    /\ wres' = CompilationUnit_write(inp.unit)
    /\ pc' = "written"
    /\ UNCHANGED <<inp, rres, iterVars, curVars, treeVars>>

TUWrite ==
    /\ pc = "init" /\ inp.kind = "tu"
    /\ wres' = TypeUnit_write(inp.unit)
    /\ pc' = "written"
    /\ UNCHANGED <<inp, rres, iterVars, curVars, treeVars>>

CURead ==
    /\ pc = "written" /\ inp.kind = "cu" /\ wres.err = "ok"
    /\ rres' = CompilationUnit_read(wres.out, inp.unit.offset, inp.unit.endian)
    /\ pc' = "read"
    /\ UNCHANGED <<inp, wres, iterVars, curVars, treeVars>>

TURead ==
    /\ pc = "written" /\ inp.kind = "tu" /\ wres.err = "ok"
    /\ rres' = TypeUnit_read(wres.out, inp.unit.offset, inp.unit.endian)
    /\ pc' = "read"
    /\ UNCHANGED <<inp, wres, iterVars, curVars, treeVars>>

NextUnitRT == CUWrite \/ TUWrite \/ CURead \/ TURead

SpecUnitRT == InitUnitRT /\ [][NextUnitRT]_vars

\* C1: for every well-formed compilation or type unit u (offset_size 4 or 8,
\* version 2..4, any body, any abbrev_offset and type_offset), reading the
\* bytes written by write(u) yields a unit equal to u and consumes all the
\* written bytes.
C1_UnitRoundTrip ==
    (pc = "read" /\ inp.unit.offset_size \in {4, 8} /\ inp.unit.version \in 2..4)
        => (IsOk(rres) /\ rres.val = inp.unit /\ rres.rest = <<>>)

\* ------------------------------------------------------------------------
\* Unit iteration over a section.
IterUnits(e) ==
    {[NoUnit EXCEPT !.endian = e, !.version = v, !.address_size = 4, !.offset_size = os,
                    !.data = d, !.type_signature = <<1, 2, 3, 4, 5, 6, 7, 8>>] :
        v \in {1, 4}, os \in {4, 8}, d \in {<<>>, <<1, 35>>}}

\* Raw initial lengths: reserved values, lengths beyond the input, lengths
\* shorter than the header, a 64-bit length that does not fit in 32 bits.
RawPieces(e) ==
    {write_endian(d, e) \o t :
        d \in {<<240, 255, 255, 255>>, <<254, 255, 255, 255>>, <<0, 0, 0, 0>>,
               <<3, 0, 0, 0>>, <<0, 0, 0, 1>>},
        t \in {<<>>, <<4, 0, 0>>}}
    \cup {<<255, 255, 255, 255>> \o write_endian(d, e) \o <<4, 0>> :
        d \in {<<2, 0, 0, 0, 0, 0, 0, 0>>, <<2, 0, 0, 0, 1, 0, 0, 0>>,
               <<255, 255, 255, 255, 255, 255, 255, 255>>}}

Pieces(k, e) ==
    {(IF k = "cu" THEN CompilationUnit_write(u) ELSE TypeUnit_write(u)).out : u \in IterUnits(e)}
    \cup RawPieces(e)

RECURSIVE Concats(_, _)
Concats(P, n) ==
    IF n = 0 THEN {<<>>}
    ELSE LET shorter == Concats(P, n - 1) IN shorter \cup {s \o x : s \in shorter, x \in P}

\* A section is a concatenation of pieces, possibly cut short.
Sections(k, e) ==
    {SubSeq(s, 1, Len(s) - cut) : s \in Concats(Pieces(k, e), MaxUnits), cut \in {0, 1, 3}}

InitIter ==
    /\ \E k \in {"cu", "tu"}, e \in Endians :
        /\ sect \in Sections(k, e)
        /\ iter = [kind |-> k, endian |-> e, data |-> sect, offset |-> 0]
    /\ last = [before |-> iter, res |-> "init", unit |-> NoUnit]
    /\ RtIdle /\ CurIdle /\ TreeIdle

CUNext ==
    /\ iter.kind = "cu"
    /\ \E x \in {CompilationUnitIterator_next(iter)} :
           /\ iter' = x.it
           /\ last' = [before |-> iter, res |-> x.res, unit |-> x.unit]
    /\ UNCHANGED <<sect, rtVars, curVars, treeVars>>

TUNext ==
    /\ iter.kind = "tu"
    /\ \E x \in {TypeUnitIterator_next(iter)} :
           /\ iter' = x.it
           /\ last' = [before |-> iter, res |-> x.res, unit |-> x.unit]
    /\ UNCHANGED <<sect, rtVars, curVars, treeVars>>

NextIter == CUNext \/ TUNext

SpecIter == InitIter /\ [][NextIter]_vars

\* The initial length stored at a section offset, read off the section's
\* bytes: the width of the length field and the declared length.
FieldAt(off, n) ==
    LET b == SubSeq(sect, off + 1, off + n)
    IN  IF iter.endian = "little" THEN b ELSE [i \in 1..n |-> b[n + 1 - i]]
IsMarker(off) == FieldAt(off, 4) = <<255, 255, 255, 255>>
LengthFieldSize(off) == IF IsMarker(off) THEN 12 ELSE 4
DeclaredLength(off) == IF IsMarker(off) THEN FieldAt(off + 4, 8) ELSE FieldAt(off, 4)
HeaderFieldBytes(k, os) == IF k = "cu" THEN 2 + os + 1 ELSE 2 + os + 1 + 8 + os
DataOffset(u) ==
    IF iter.kind = "cu" THEN CompilationUnit_data_offset(u) ELSE TypeUnit_data_offset(u)

\* C2: units tile the section.  The iterator's offset plus its unconsumed
\* input is the section; a returned unit starts at the offset the iterator
\* had, the iterator advances by the length field plus the declared length,
\* the unit's data is the declared length less the header fields, and
\* data_offset() is where the data lies in the section, up to the next unit.
C2_UnitsTile ==
    /\ iter.offset + Len(iter.data) = Len(sect)
    /\ iter.data = Drop(sect, iter.offset)
    /\ last.res = "ok" =>
        LET u == last.unit
            off == last.before.offset
            decl == SmallInt(DeclaredLength(off))
        IN  /\ u.offset = off
            /\ IsSmall(DeclaredLength(off))
            /\ iter.offset = off + LengthFieldSize(off) + decl
            /\ Len(u.data) = decl - HeaderFieldBytes(iter.kind, u.offset_size)
            /\ DataOffset(u) + Len(u.data) = iter.offset
            /\ u.data = SubSeq(sect, DataOffset(u) + 1, DataOffset(u) + Len(u.data))
    /\ last.res \notin {"ok", "init"} => iter = last.before

\* a second unit has been returned, of either length encoding
C2_Witness ==
    /\ last.res = "ok" /\ last.before.offset > 0
    /\ last.unit.offset_size = 8 /\ Len(last.unit.data) > 0

\* C3: the initial length of a unit header.  0xFFFFFFFF announces a u64
\* length and offset_size 8; a first u32 below 0xFFFFFFF0 is the length, with
\* offset_size 4; 0xFFFFFFF0..0xFFFFFFFE is Unsupported; an accepted length
\* beyond the remaining input is Invalid, and no slice is taken out of range.
C3_InitialLength ==
    (last.res # "init" /\ Len(last.before.data) >= 4) =>
        LET off == last.before.offset
            first == FieldAt(off, 4)
            reserved == first[4] = 255 /\ first[3] = 255 /\ first[2] = 255
                        /\ first[1] >= 240 /\ first[1] <= 254
            has64 == Len(last.before.data) >= 12
            decl == DeclaredLength(off)
            remaining == Len(last.before.data) - LengthFieldSize(off)
        IN  /\ last.res # "Panic"
            /\ reserved => last.res = "Unsupported"
            /\ (IsMarker(off) /\ has64 /\ GtLen(decl, remaining)) => last.res = "Invalid"
            /\ (~IsMarker(off) /\ ~reserved /\ GtLen(decl, remaining)) => last.res = "Invalid"
            /\ (last.res = "ok" /\ IsMarker(off)) =>
                    (last.unit.offset_size = 8 /\ ~GtLen(decl, remaining))
            /\ (last.res = "ok" /\ ~IsMarker(off)) =>
                    (last.unit.offset_size = 4 /\ ~GtLen(decl, remaining))

\* a reserved length and a length beyond the input have been met
C3_Witness ==
    /\ last.res = "Invalid"
    /\ Len(last.before.data) >= 12
    /\ IsMarker(last.before.offset)
    /\ last.before.offset > 0

\* ------------------------------------------------------------------------
\* Attribute round trip: write a value with a form, read the written bytes.
InitAttr ==
    /\ \E fv \in FormTable : inp \in AttrInputs(fv)
    /\ wres = WOk(<<>>)
    /\ rres = Err("none", <<>>)
    /\ pc = "init"
    /\ IterIdle /\ CurIdle /\ TreeIdle

AttrWrite ==
    /\ pc = "init" /\ inp.kind = "attr"
    /\ wres' = AttributeData_write(inp.value, inp.unit, inp.form, inp.indirect)
    /\ pc' = "written"
    /\ UNCHANGED <<inp, rres, iterVars, curVars, treeVars>>

AttrRead ==
    /\ pc = "written" /\ inp.kind = "attr" /\ wres.err = "ok"
    /\ rres' = AttributeData_read(wres.out, inp.unit,
                                  IF inp.indirect THEN DW_FORM_indirect ELSE inp.form)
    /\ pc' = "read"
    /\ UNCHANGED <<inp, wres, iterVars, curVars, treeVars>>

NextAttr == AttrWrite \/ AttrRead
SpecAttr == InitAttr /\ [][NextAttr]_vars

\* The (form, value) pairs of the form table: flag_present decodes to
\* Flag(true) only.
InFormTable(x) ==
    /\ <<x.form, x.value.variant>> \in FormTable
    /\ (x.form = DW_FORM_flag_present => x.value.val = TRUE)

\* C4: for every (form, value) pair of the form table, with address_size and
\* offset_size in {4, 8} and version in 2..4, AttributeData::write succeeds,
\* the indirect encoding is one ULEB of the form code followed by the direct
\* encoding, and AttributeData::read of the written bytes (with the same form,
\* or with DW_FORM_indirect) returns the original value and consumes all the
\* written bytes.
C4_AttrRoundTrip ==
    /\ (pc \in {"written", "read"} /\ InFormTable(inp))
            => /\ wres.err = "ok"
               /\ inp.indirect =>
                    wres.out = leb128_write_u64(U64(inp.form))
                                 \o AttributeData_write(inp.value, inp.unit, inp.form, FALSE).out
    /\ (pc = "read" /\ InFormTable(inp))
            => /\ IsOk(rres)
               /\ rres.val.variant = inp.value.variant
               /\ rres.val.val = inp.value.val
               /\ rres.rest = <<>>

\* ------------------------------------------------------------------------
\* Abbreviation round trip: write a vector, read the written bytes.
InitAbbrev ==
    /\ inp \in AbbrevVecs
    /\ wres = WOk(<<>>)
    /\ rres = Err("none", <<>>)
    /\ pc = "init"
    /\ IterIdle /\ CurIdle /\ TreeIdle

AbbrevWrite ==
    /\ pc = "init" /\ inp.kind = "abbrev"
    /\ wres' = AbbrevVec_write(inp.vec)
    /\ pc' = "written"
    /\ UNCHANGED <<inp, rres, iterVars, curVars, treeVars>>

AbbrevRead ==
    /\ pc = "written" /\ inp.kind = "abbrev" /\ wres.err = "ok"
    /\ rres' = AbbrevHash_read(wres.out)
    /\ pc' = "read"
    /\ UNCHANGED <<inp, wres, iterVars, curVars, treeVars>>

NextAbbrev == AbbrevWrite \/ AbbrevRead
SpecAbbrev == InitAbbrev /\ [][NextAbbrev]_vars

\* The read consumed all written bytes and gave a map of as many entries as
\* the vector in which every abbreviation of the vector is found by its code.
AbbrevRoundTrips ==
    /\ IsOk(rres)
    /\ rres.rest = <<>>
    /\ Cardinality(rres.val) = Len(inp.vec)
    /\ \A i \in 1..Len(inp.vec) : AbbrevHash_get(rres.val, inp.vec[i].code) = Some(inp.vec[i])

\* A vector the table format can hold: no code is 0 (the terminator of the
\* table), no two abbreviations share a code, and no attribute is the null
\* pair (the terminator of an attribute list).
EncodableVec(vec) ==
    /\ \A i \in 1..Len(vec) : ~IsZero(vec[i].code)
    /\ \A i, j \in 1..Len(vec) : vec[i].code = vec[j].code => i = j
    /\ \A i \in 1..Len(vec) : \A k \in 1..Len(vec[i].attributes) :
            ~AbbrevAttribute_is_null(vec[i].attributes[k])

\* C10 (as stated): for every abbreviation vector, AbbrevVec::write followed
\* by AbbrevHash::read consumes all written bytes and yields a map with the
\* same number of entries in which get(a.code) equals a for every
\* abbreviation a of the vector.
C10_AnyVector == pc = "read" => AbbrevRoundTrips

\* C10 (amended): the same, for every abbreviation vector whose codes are
\* nonzero and pairwise distinct and whose attribute lists hold no
\* (DW_AT_null, DW_FORM_null) pair.
C10_AbbrevRoundTrip == (pc = "read" /\ EncodableVec(inp.vec)) => AbbrevRoundTrips

C10_Witness ==
    /\ pc = "read" /\ EncodableVec(inp.vec) /\ Len(inp.vec) = 2
    /\ Len(inp.vec[1].attributes) = 2 /\ inp.vec[2].children
    /\ AbbrevRoundTrips

\* The bytes of the abbreviations from the i-th on, each written with its
\* position as its code
RECURSIVE PositionalBytes(_, _)
PositionalBytes(vec, i) ==
    IF i > Len(vec) THEN <<>>
    ELSE Abbrev_write([vec[i] EXCEPT !.code = U64(i)]) \o PositionalBytes(vec, i + 1)

\* C11: AbbrevVec::write emits the abbreviations in vector order and with
\* positional codes: the i-th abbreviation (from 1) is emitted i-th and with
\* code i, and the table's terminator follows.
C11_PositionalCodes ==
    (pc \in {"written", "read"} /\ wres.err = "ok")
        => wres.out = PositionalBytes(inp.vec, 1) \o Abbrev_write_null

\* ------------------------------------------------------------------------
\* Entry round trip: read each entry of a body with DieIterator::next and
\* write it with Die::write to one sink (wres).
InitDie ==
    /\ inp \in DieBodies
    /\ \E e \in Endians :
         dit = DieIterator_new(inp.body, CompilationUnit_data_offset(DieUnit(e, 0)),
                               DieUnit(e, 0), DieAbbrevs)
    /\ wres = WOk(<<>>)
    /\ rres = Err("none", <<>>)
    /\ pc = "next"
    /\ ret = <<>> /\ calls = <<>>
    /\ IterIdle /\ TreeIdle

DieNext ==
    /\ pc = "next"
    /\ \E n \in {DieIterator_next(dit)} :
         /\ dit' = n.it
         /\ ret' = [op |-> "next", before |-> dit, res |-> n.res, reads |-> <<>>]
         /\ pc' = IF n.res = "some" THEN "write" ELSE IF n.res = "none" THEN "done" ELSE "failed"
    /\ UNCHANGED <<inp, wres, rres, calls, iterVars, treeVars>>

DieWrite ==
    /\ pc = "write"
    /\ wres' = wtry(wres, Die_write(dit.entry, dit.unit, dit.abbrev))
    /\ pc' = IF wres'.err = "ok" THEN "next" ELSE "failed"
    /\ UNCHANGED <<inp, rres, dit, ret, calls, iterVars, treeVars>>

NextDie == DieNext \/ DieWrite
SpecDie == InitDie /\ [][NextDie]_vars

\* C5: for every body of entries that uses canonical LEB128 encodings and no
\* DW_FORM_indirect, reading each entry with DieIterator::next and writing it
\* with Die::write, in order and with the same abbreviation table, never
\* fails and produces the bytes of the body: after each entry the bytes read
\* so far, and at the end the whole body.
C5_DieBitExact ==
    (inp.canonical /\ ~inp.indirect)
        => /\ pc # "failed"
           /\ pc \in {"next", "done"}
                => wres.out = SubSeq(inp.body, 1, Len(inp.body) - Len(dit.r))
           /\ pc = "done" => wres.out = inp.body

\* ------------------------------------------------------------------------
\* The cursor: next and next_sibling calls, in any order, on a well-formed
\* stream.
InitCursor ==
    /\ \E toks \in CursorToks, u \in CursorUnits : inp = CursorInput(toks, u)
    /\ dit = DieIterator_new(inp.body, inp.start, inp.unit, CursorAbbrevs)
    /\ ret = <<>>
    /\ calls = <<>>
    /\ wres = WOk(<<>>)
    /\ rres = Err("none", <<>>)
    /\ pc = "cursor"
    /\ IterIdle /\ TreeIdle

CursorNext ==
    /\ pc = "cursor" /\ Len(calls) < Len(inp.toks) + 2
    /\ \E n \in {DieIterator_next(dit)} :
         /\ dit' = n.it
         /\ ret' = [op |-> "next", before |-> dit, res |-> n.res,
                    reads |-> IF n.res = "none" THEN <<>> ELSE <<dit.offset>>]
    /\ calls' = Append(calls, "next")
    /\ UNCHANGED <<rtVars, iterVars, treeVars>>

CursorNextSibling ==
    /\ pc = "cursor" /\ Len(calls) < Len(inp.toks) + 2
    /\ \E checked \in BOOLEAN :
         \E s \in {DieIterator_next_sibling(dit, checked)} :
            /\ dit' = s.it
            /\ ret' = [op |-> "next_sibling", before |-> dit, res |-> s.res, reads |-> s.reads]
    /\ calls' = Append(calls, "next_sibling")
    /\ UNCHANGED <<rtVars, iterVars, treeVars>>

NextCursor == CursorNext \/ CursorNextSibling
SpecCursor == InitCursor /\ [][NextCursor]_vars

\* The offset after entry i of the stream, and the entry that ends at an
\* offset (0 at the start of the entries)
EndOffset(i) == inp.start + TokOffset(inp.toks, i + 1)
EntryBefore(offset) ==
    IF offset = inp.start THEN 0
    ELSE CHOOSE i \in 1..Len(inp.toks) : EndOffset(i) = offset

\* C6: calling only DieIterator::next, the k-th call returns the k-th entry
\* of the stream (nulls included), with offset equal to the start offset plus
\* the bytes consumed before it and with the tag, children flag and
\* attributes of the abbreviation of its code; a call returns None exactly
\* when the remaining input is empty, which is after the last entry.
C6_CursorOrder ==
    (pc = "cursor" /\ Len(calls) > 0 /\ \A i \in 1..Len(calls) : calls[i] = "next")
        => /\ ret.res \in {"some", "none"}
           /\ ret.res = "none" <=> ret.before.r = <<>>
           /\ ret.res = "none" <=> Len(calls) > Len(inp.toks)
           /\ ret.res = "some"
                => /\ dit.entry = inp.entries[Len(calls)]
                   /\ dit.entry.offset = inp.start + (Len(inp.body) - Len(ret.before.r))
                   /\ ~Die_is_null(dit.entry)
                        => \E a \in CursorAbbrevs :
                              /\ a.code = dit.entry.code
                              /\ a.tag = dit.entry.tag
                              /\ a.children = dit.entry.children
                              /\ Len(a.attributes) = Len(dit.entry.attributes)
                              /\ \A k \in 1..Len(a.attributes) :
                                    a.attributes[k].at = dit.entry.attributes[k].at

C6_Witness ==
    /\ pc = "cursor" /\ Len(calls) = 5 /\ \A i \in 1..Len(calls) : calls[i] = "next"
    /\ inp.toks = <<"sib", "leaf", "null", "leaf">>
    /\ ret.res = "none"

\* C7: on a well-formed stream, from any position reached by next and
\* next_sibling calls, next_sibling returns the first entry after the current
\* one that sits at the depth of the current entry (for a current entry
\* without children this is the following entry, for one with children the
\* entry after the null that ends its children), for a current null or at the
\* start the following entry, which for a null sits one level up; it returns
\* None when the input ends before such an entry.
C7_NextSibling ==
    (pc = "cursor" /\ Len(calls) > 0 /\ ret.op = "next_sibling")
        => LET cur == EntryBefore(ret.before.offset)
               sib == IF cur = 0 THEN 1 ELSE NextSiblingIndex(inp.toks, cur)
           IN  IF sib > Len(inp.toks) THEN ret.res = "none"
               ELSE /\ ret.res = "some"
                    /\ dit.entry = inp.entries[sib]
                    /\ dit.offset = EndOffset(sib)
                    /\ (cur > 0 /\ inp.toks[cur] # "null")
                         => EntryDepth(inp.toks, sib) = EntryDepth(inp.toks, cur)
                    /\ (cur > 0 /\ inp.toks[cur] = "null")
                         => /\ sib = cur + 1
                            /\ EntryDepth(inp.toks, sib) = EntryDepth(inp.toks, cur) - 1
                    /\ (cur > 0 /\ inp.toks[cur] = "leaf") => sib = cur + 1

C7_Witness ==
    /\ pc = "cursor" /\ Len(calls) > 0 /\ ret.op = "next_sibling"
    /\ ret.before.entry.children /\ SiblingAttribute(ret.before.entry) = None
    /\ ret.res = "some" /\ ~Die_is_null(dit.entry)
    /\ dit.entry.offset >= ret.before.offset + 4

\* The entry the call started from has children and a DW_AT_sibling Ref
\* that points ahead of the cursor and within the remaining input
C8_Case ==
    /\ pc = "cursor" /\ Len(calls) > 0 /\ ret.op = "next_sibling"
    /\ ret.before.entry.children
    /\ \E i \in 1..Len(ret.before.entry.attributes) :
         /\ ret.before.entry.attributes[i].at = DW_AT_sibling
         /\ ret.before.entry.attributes[i].data.variant = "Ref"
    /\ GtLen(sibling_offset(ret.before), ret.before.offset)
    /\ ~GtLen(sibling_offset(ret.before), ret.before.offset + Len(ret.before.r))

\* unit offset + Ref value of the entry the call started from
C8_SiblingOffset == SmallInt(sibling_offset(ret.before))

\* No entry was decoded at an offset of [current_offset, sibling_offset)
C8_NoDecodeInside ==
    \A k \in 1..Len(ret.reads) :
        ~(ret.before.offset <= ret.reads[k] /\ ret.reads[k] < C8_SiblingOffset)

TreeFrame(it, parent) ==
    [it |-> it, parent |-> parent, yielded |-> <<>>, left |-> <<>>]

InitTree ==
    /\ \E toks \in CursorToks, u \in TreeUnits : inp = CursorInput(toks, u)
    /\ tree = DieTree_new(DieIterator_new(inp.body, inp.start, inp.unit, CursorAbbrevs))
    /\ stack = <<TreeFrame(DieTree_iter(tree), tree.iter.entry)>>
    /\ ret = [op |-> "iter", before |-> DieTree_iter(tree), tree |-> tree, res |-> "none"]
    /\ dit = <<>>
    /\ calls = <<>>
    /\ wres = WOk(<<>>)
    /\ rres = Err("none", <<>>)
    /\ pc = "tree"
    /\ IterIdle

\* The live iterators after the innermost one's next returned n
TreeNextStack(n) ==
    IF n.res = "some"
    THEN Append([stack EXCEPT ![Len(stack)].it = n.self,
                              ![Len(stack)].yielded = Append(@, n.tree.iter.entry)],
                TreeFrame(DieTreeIterator_new(n.self.depth + 1), n.tree.iter.entry))
    ELSE [stack EXCEPT ![Len(stack)].it = n.self]

TreeNext ==
    /\ pc = "tree"
    /\ \E checked \in BOOLEAN :
         \E n \in {DieTreeIterator_next(stack[Len(stack)].it, tree, checked)} :
            /\ tree' = n.tree
            /\ stack' = TreeNextStack(n)
            /\ ret' = [op |-> "next", before |-> stack[Len(stack)].it, tree |-> tree,
                       res |-> n.res]
    /\ UNCHANGED <<rtVars, iterVars, dit, calls>>

\* How far an iterator was iterated
TreeLeft(frame) ==
    IF frame.it.done THEN "all" ELSE IF Len(frame.yielded) = 0 THEN "none" ELSE "part"

TreeDrop ==
    /\ pc = "tree" /\ Len(stack) > 1
    /\ stack' = [SubSeq(stack, 1, Len(stack) - 1) EXCEPT
                    ![Len(stack) - 1].left = Append(@, TreeLeft(stack[Len(stack)]))]
    /\ UNCHANGED <<rtVars, iterVars, curVars, tree>>

NextTree == TreeNext \/ TreeDrop
SpecTree == InitTree /\ [][NextTree]_vars

\* The stream's token of an entry: 0 for the cursor's entry before any read
TreeIndexKnown(entry) ==
    \/ entry.offset = 0
    \/ \E i \in 1..Len(inp.toks) : inp.entries[i].offset = entry.offset
TreeIndex(entry) ==
    IF entry.offset = 0 THEN 0
    ELSE CHOOSE i \in 1..Len(inp.toks) : inp.entries[i].offset = entry.offset

\* The non-null direct children of token p (of the stream for p = 0)
ChildIndices(toks, p) ==
    IF p = 0
    THEN {i \in 1..Len(toks) : toks[i] # "null" /\ EntryDepth(toks, i) = 0}
    ELSE IF toks[p] \in {"leaf", "null"} THEN {}
    ELSE {i \in (p + 1)..(NextSiblingIndex(toks, p) - 1) :
            toks[i] # "null" /\ EntryDepth(toks, i) = EntryDepth(toks, p) + 1}
\* the same in document order, as entries
ChildEntries(p) ==
    [k \in 1..Cardinality(ChildIndices(inp.toks, p)) |->
        inp.entries[CHOOSE c \in ChildIndices(inp.toks, p) :
                        Cardinality({x \in ChildIndices(inp.toks, p) : x < c}) = k - 1]]

EntryEq(a, b) ==
    /\ a.offset = b.offset
    /\ a.code = b.code
    /\ a.tag = b.tag
    /\ a.children = b.children
    /\ Len(a.attributes) = Len(b.attributes)
    /\ \A k \in 1..Len(a.attributes) :
         /\ a.attributes[k].at = b.attributes[k].at
         /\ a.attributes[k].data.variant = b.attributes[k].data.variant
         /\ a.attributes[k].data.val = b.attributes[k].data.val

\* C9: on a well-formed stream, whatever the caller did with the child
\* iterators (dropped them untouched, partly iterated or exhausted), every
\* live DieTreeIterator has yielded, in document order, a prefix of the
\* non-null direct children of its parent entry (of the top-level entries
\* for the root iterator), it has yielded all of them when it returned None,
\* no call fails, and a call after None returns None again; an entry with
\* the children flag followed by a null has no such children and yields none.
C9_TreeChildren ==
    pc = "tree"
        => /\ ret.res \in {"some", "none"}
           /\ ret.before.done => ret.res = "none"
           /\ \A k \in 1..Len(stack) :
                /\ TreeIndexKnown(stack[k].parent)
                /\ Len(stack[k].yielded) <= Len(ChildEntries(TreeIndex(stack[k].parent)))
                /\ \A j \in 1..Len(stack[k].yielded) :
                     EntryEq(stack[k].yielded[j],
                             ChildEntries(TreeIndex(stack[k].parent))[j])
                /\ stack[k].it.done
                     => Len(stack[k].yielded)
                            = Len(ChildEntries(TreeIndex(stack[k].parent)))

\* The root iterator is exhausted, and called again, after one child
\* iterator was dropped partly iterated and another untouched
C9_Witness ==
    /\ pc = "tree" /\ Len(stack) = 1 /\ stack[1].it.done
    /\ inp.toks = <<"parent", "leaf", "leaf", "null", "leaf">>
    /\ Len(stack[1].yielded) = 2
    /\ stack[1].left = <<"part", "none">>
    /\ ret.op = "next" /\ ret.before.done /\ ret.res = "none"

\* ------------------------------------------------------------------------
\* LEB128: a value is written to a buffer (wres) and the buffer is read, or
\* the buffer holds a raw encoding and is read.
InitLeb ==
    /\ \/ \E v \in Leb64Values : inp = [kind |-> "u64", val |-> v] /\ pc = "init"
       \/ \E v \in Leb64Values : inp = [kind |-> "i64", val |-> v] /\ pc = "init"
       \/ \E v \in LebU16Values : inp = [kind |-> "u16", val |-> v] /\ pc = "init"
       \/ \E b \in LebEncodings : inp = [kind |-> "bytes", val |-> b] /\ pc = "buffer"
    /\ wres = WOk(IF inp.kind = "bytes" THEN inp.val ELSE <<>>)
    /\ rres = Err("none", <<>>)
    /\ IterIdle /\ CurIdle /\ TreeIdle

LebWriteU64 ==
    /\ pc = "init" /\ inp.kind = "u64"
    /\ wres' = WOk(leb128_write_u64(inp.val))
    /\ pc' = "buffer"
    /\ UNCHANGED <<inp, rres, iterVars, curVars, treeVars>>

LebWriteI64 ==
    /\ pc = "init" /\ inp.kind = "i64"
    /\ wres' = WOk(leb128_write_i64(inp.val))
    /\ pc' = "buffer"
    /\ UNCHANGED <<inp, rres, iterVars, curVars, treeVars>>

LebWriteU16 ==
    /\ pc = "init" /\ inp.kind = "u16"
    /\ wres' = WOk(leb128_write_u16(inp.val))
    /\ pc' = "buffer"
    /\ UNCHANGED <<inp, rres, iterVars, curVars, treeVars>>

LebReadU64 ==
    /\ pc = "buffer" /\ inp.kind \in {"u64", "bytes"}
    /\ rres' = leb128_read_u64(wres.out)
    /\ pc' = "read_u64"
    /\ UNCHANGED <<inp, wres, iterVars, curVars, treeVars>>

LebReadI64 ==
    /\ pc = "buffer" /\ inp.kind \in {"i64", "bytes"}
    /\ rres' = leb128_read_i64(wres.out)
    /\ pc' = "read_i64"
    /\ UNCHANGED <<inp, wres, iterVars, curVars, treeVars>>

LebReadU16 ==
    /\ pc = "buffer" /\ inp.kind = "u16"
    /\ rres' = leb128_read_u16(wres.out)
    /\ pc' = "read_u16"
    /\ UNCHANGED <<inp, wres, iterVars, curVars, treeVars>>

NextLeb ==
    \/ LebWriteU64 \/ LebWriteI64 \/ LebWriteU16
    \/ LebReadU64 \/ LebReadI64 \/ LebReadU16
SpecLeb == InitLeb /\ [][NextLeb]_vars

\* C12: read_u64 of the bytes of write_u64(x) returns x and consumes exactly
\* those bytes, for every u64 x (0x7fff_ffff_ffff_ffff is written in 9 bytes
\* and 0xffff_ffff_ffff_ffff in 10); read_u16 of the bytes of write_u16(x)
\* returns x, for every u16 x.
C12_UnsignedRoundTrip ==
    /\ (pc = "read_u64" /\ inp.kind = "u64")
         => /\ IsOk(rres) /\ rres.val = inp.val /\ rres.rest = <<>>
            /\ inp.val = LowOnes(63) => Len(wres.out) = 9
            /\ inp.val = LowOnes(64) => Len(wres.out) = 10
    /\ pc = "read_u16"
         => IsOk(rres) /\ rres.val = inp.val /\ rres.rest = <<>>

C12_Witness ==
    /\ pc = "read_u64" /\ inp.kind = "u64" /\ inp.val = LowOnes(64)
    /\ Len(wres.out) = 10 /\ rres.val = inp.val

\* C13: read_i64 of the bytes of write_i64(x) returns x and consumes exactly
\* those bytes, for every i64 x (i64::MIN, i64::MAX, -0x4000000000000000 and
\* 0x4000000000000000 included); a 10-byte encoding, which has accumulated
\* 64 bits or more, is returned without sign extension.
C13_SignedRoundTrip ==
    (pc = "read_i64" /\ inp.kind = "i64")
        => IsOk(rres) /\ rres.val = inp.val /\ rres.rest = <<>>

C13_Witness ==
    /\ pc = "read_i64" /\ inp.kind = "i64" /\ inp.val = Pow2(63)
    /\ Len(wres.out) = 10 /\ wres.out[10] = 127 /\ rres.val = inp.val

\* The encoding at the head of a buffer: its length (0 if no byte of the
\* buffer ends it), its bits (7 per byte, least significant first), and
\* its mathematical value where that fits in 64 bits.
LebLen(r) ==
    IF \E i \in 1..Len(r) : r[i] < 128
    THEN CHOOSE i \in 1..Len(r) : r[i] < 128 /\ \A k \in 1..(i - 1) : r[k] >= 128
    ELSE 0
LebBit(r, j) == ((r[(j \div 7) + 1] % 128) \div (2 ^ (j % 7))) % 2
LebUBit(r, j) == IF j < 7 * LebLen(r) THEN LebBit(r, j) ELSE 0
LebSBit(r, j) == IF j < 7 * LebLen(r) THEN LebBit(r, j) ELSE LebBit(r, 7 * LebLen(r) - 1)
LebUFits(r) == \A j \in 64..(7 * LebLen(r) - 1) : LebBit(r, j) = 0
LebSFits(r) == \A j \in 63..(7 * LebLen(r) - 1) : LebBit(r, j) = LebBit(r, 7 * LebLen(r) - 1)
LebUValue(r) ==
    [k \in 1..8 |->
        LebUBit(r, 8 * k - 8) + 2 * LebUBit(r, 8 * k - 7) + 4 * LebUBit(r, 8 * k - 6)
        + 8 * LebUBit(r, 8 * k - 5) + 16 * LebUBit(r, 8 * k - 4) + 32 * LebUBit(r, 8 * k - 3)
        + 64 * LebUBit(r, 8 * k - 2) + 128 * LebUBit(r, 8 * k - 1)]
LebSValue(r) ==
    [k \in 1..8 |->
        LebSBit(r, 8 * k - 8) + 2 * LebSBit(r, 8 * k - 7) + 4 * LebSBit(r, 8 * k - 6)
        + 8 * LebSBit(r, 8 * k - 5) + 16 * LebSBit(r, 8 * k - 4) + 32 * LebSBit(r, 8 * k - 3)
        + 64 * LebSBit(r, 8 * k - 2) + 128 * LebSBit(r, 8 * k - 1)]
\* The first nine bytes have the continuation bit and there is a tenth
LebTenth(r) == Len(r) >= 10 /\ \A i \in 1..9 : r[i] >= 128

\* C14: a LEB128 read returns the exact mathematical value of the encoding,
\* which then fits in 64 bits (unsigned for read_u64, signed for read_i64),
\* having consumed the encoding, or Overflow, or the end-of-input error; a
\* tenth byte other than 0x00 and 0x01 (0x00 and 0x7f for read_i64) gives
\* Overflow; no read consumes more than 10 bytes, so no shift exceeds 63.
C14_NoSilentDrop ==
    /\ pc = "read_u64"
         => /\ rres.err \in {"ok", "Overflow", "Io"}
            /\ Len(wres.out) - Len(rres.rest) <= 10
            /\ IsOk(rres)
                 => /\ LebLen(wres.out) = Len(wres.out) - Len(rres.rest)
                    /\ LebUFits(wres.out)
                    /\ rres.val = LebUValue(wres.out)
            /\ (LebTenth(wres.out) /\ wres.out[10] \notin {0, 1}) => rres.err = "Overflow"
            /\ rres.err = "Io" => LebLen(wres.out) = 0
    /\ pc = "read_i64"
         => /\ rres.err \in {"ok", "Overflow", "Io"}
            /\ Len(wres.out) - Len(rres.rest) <= 10
            /\ IsOk(rres)
                 => /\ LebLen(wres.out) = Len(wres.out) - Len(rres.rest)
                    /\ LebSFits(wres.out)
                    /\ rres.val = LebSValue(wres.out)
            /\ (LebTenth(wres.out) /\ wres.out[10] \notin {0, 127}) => rres.err = "Overflow"
            /\ rres.err = "Io" => LebLen(wres.out) = 0

\* 11 bytes of 0x80 followed by 0xFF give Overflow
C14_Witness ==
    /\ pc = "read_u64" /\ inp.kind = "bytes"
    /\ wres.out = <<128, 128, 128, 128, 128, 128, 128, 128, 128, 128, 128, 255>>
    /\ rres.err = "Overflow"

\* ------------------------------------------------------------------------
\* The line program: the unit is parsed and made an iterator, and next is
\* called on it.  dit is the LineIterator, ret the last call, calls the
\* rows emitted so far.
InitLine ==
    /\ \/ \E h \in LineRunConfigs :
            \E instrs \in SeqsUpTo(LineInstrs(h), MaxInstrs) : inp = LineInput(h, instrs)
       \/ \E h \in LineHeaderConfigs : inp = LineInput(h, <<"copy">>)
    /\ wres = WOk(<<>>)
    /\ rres = Err("none", <<>>)
    /\ pc = "line_init"
    /\ IterIdle /\ CurIdle /\ TreeIdle

LineRead ==
    /\ pc = "line_init"
    /\ rres' = LineProgram_read(inp.unit, 0, inp.h.endian, inp.h.address_size, <<>>, <<>>)
    /\ pc' = IF IsOk(rres') THEN "line" ELSE "line_failed"
    /\ dit' = IF IsOk(rres') THEN LineIterator_new(rres'.val) ELSE dit
    /\ ret' = IF IsOk(rres') THEN [before |-> dit', res |-> "new"] ELSE ret
    /\ UNCHANGED <<inp, wres, calls, iterVars, treeVars>>

LineNext ==
    /\ pc = "line"
    /\ \E checked \in BOOLEAN :
         \E n \in {LineIterator_next(dit, checked)} :
            /\ dit' = n.it
            /\ ret' = [before |-> dit, res |-> n.res]
            /\ calls' = IF n.res = "some" THEN Append(calls, n.it.line) ELSE calls
            /\ pc' = IF n.res = "Panic" THEN "line_panicked" ELSE pc
    /\ UNCHANGED <<inp, wres, rres, iterVars, treeVars>>

NextLine == LineRead \/ LineNext
SpecLine == InitLine /\ [][NextLine]_vars

\* The bytes of the program before instruction i, and the instruction that
\* starts where the iterator it stands
RECURSIVE LineInstrOffset(_)
LineInstrOffset(i) ==
    IF i <= 1 THEN 0
    ELSE LineInstrOffset(i - 1) + Len(LineInstrBytes(inp.instrs[i - 1], inp.h))
LineInstrAt(it) ==
    CHOOSE i \in 1..(Len(inp.instrs) + 1) :
        LineInstrOffset(i) = Len(inp.program) - Len(it.data)

\* The last call emitted a row; the row before it; the instructions and
\* the bytes the call executed
LineEmitted == pc = "line" /\ Len(calls) > 0 /\ ret.res = "some"
LinePrev == calls[Len(calls) - 1]
LineAfterReset == Len(calls) = 1 \/ LinePrev.sequence_end
LineCallInstrs == SubSeq(inp.instrs, LineInstrAt(ret.before), LineInstrAt(dit) - 1)
LineCallHas(names) == \E k \in 1..Len(LineCallInstrs) : LineCallInstrs[k] \in names
LineCallBytes == SubSeq(ret.before.data, 1, Len(ret.before.data) - Len(dit.data))
\* The row of an interpreter that starts with the registers line and
\* executes the bytes of the last call
LineRerun(line) ==
    LineIterator_next([ret.before EXCEPT !.line = line, !.data = LineCallBytes], FALSE).it.line

C16_RowFlags ==
    LineEmitted
        => /\ dit.line.basic_block = LineCallHas({"set_basic_block"})
           /\ dit.line.prologue_end = LineCallHas({"set_prologue_end"})
           /\ dit.line.epilogue_begin = LineCallHas({"set_epilogue_begin"})
           /\ dit.line.discriminator
                = (IF LineCallHas({"set_discriminator"}) THEN U64(9) ELSE U64(0))
           /\ ~LineAfterReset
                => /\ ~LineCallHas({"advance_pc", "advance_pc_max", "const_add_pc",
                                    "fixed_advance_pc", "special", "set_address"})
                        => /\ dit.line.address = LinePrev.address
                           /\ dit.line.operation = LinePrev.operation
                   /\ ~LineCallHas({"advance_line", "special"})
                        => dit.line.line = LinePrev.line
                   /\ ~LineCallHas({"set_column"}) => dit.line.column = LinePrev.column
                   /\ ~LineCallHas({"negate_stmt"})
                        => dit.line.statement = LinePrev.statement
                   /\ dit.line.file = LinePrev.file
                   /\ dit.line.isa = LinePrev.isa

C16_Witness ==
    /\ LineEmitted /\ Len(calls) = 2
    /\ inp.instrs = <<"set_discriminator", "special", "copy">>
    /\ calls[1].discriminator = U64(9) /\ calls[2].discriminator = U64(0)
    /\ calls[2].address = calls[1].address /\ calls[2].address # U64(0)
    /\ calls[2].line = calls[1].line

\* The registers at the start of the last call, after the reset or the
\* clearing of the flags
LineStart == LineIterator_next_line(ret.before).line
\* maximum_operations_per_instruction of the header, 1 before version 4
LineMaxOps == IF inp.h.version >= 4 THEN inp.h.operation_range ELSE 1
\* The registers advanced by op_delta: new_op = op_index + op_delta,
\* address += minimum_instruction_length * (new_op / maximum_operations),
\* op_index = new_op % maximum_operations, on u64 (wrapping)
LineAdvanced(line, op_delta) ==
    [line EXCEPT
        !.address = AddDigits(
            line.address,
            MulU8(DivU8(AddDigits(line.operation, op_delta, 0), LineMaxOps),
                  inp.h.address_step), 0),
        !.operation = ModU8(AddDigits(line.operation, op_delta, 0), LineMaxOps)]
\* line_base as a signed number
LineBase == IF inp.h.line_base >= 128 THEN inp.h.line_base - 256 ELSE inp.h.line_base

\* C17: a call whose first opcode byte is at least opcode_base executes it
\* as a special opcode: it consumes that byte only and emits a row whose
\* address and op_index are advanced by (opcode - opcode_base) / line_range
\* and whose line is changed by line_base + (opcode - opcode_base) mod
\* line_range.
C17_SpecialOpcodes ==
    (pc \in {"line", "line_panicked"} /\ ret.res # "new" /\ Len(ret.before.data) > 0
        /\ ret.before.data[1] >= inp.h.opcode_base)
        => /\ ret.res \in {"some", "Panic"}
           /\ ret.res = "some"
                => /\ Len(ret.before.data) - Len(dit.data) = 1
                   /\ dit.line =
                        [LineAdvanced(LineStart,
                                      U64((ret.before.data[1] - inp.h.opcode_base)
                                            \div inp.h.line_range))
                         EXCEPT !.line = AddDigits(
                            LineStart.line,
                            I64(LineBase + ((ret.before.data[1] - inp.h.opcode_base)
                                                % inp.h.line_range)), 0)]

\* The part of C17 that holds: when no named standard opcode is at or above
\* opcode_base
C17_AboveNamedOpcodes == inp.h.opcode_base > DW_LNS_set_isa => C17_SpecialOpcodes

\* The operation advance of an instruction that advances the PC
LineOpDelta(name) ==
    CASE name = "advance_pc" -> U64(3)
      [] name = "advance_pc_max" -> <<255, 255, 255, 255, 255, 255, 255, 255>>
      [] name = "const_add_pc" -> U64((255 - inp.h.opcode_base) \div inp.h.line_range)
      [] name = "special" -> U64((200 - inp.h.opcode_base) \div inp.h.line_range)

\* C18: for every register value and operand, DW_LNS_advance_pc,
\* DW_LNS_const_add_pc and special opcodes leave address and op_index as the
\* PC advance gives them, DW_LNS_fixed_advance_pc adds its operand to address
\* and sets op_index to 0 (checked on calls that execute one such
\* instruction and emit), no call fails in the arithmetic, and op_index is
\* below maximum_operations_per_instruction in every row.
C18_PcAdvance ==
    /\ pc # "line_panicked"
    /\ LineEmitted
        => /\ IsZero(Drop(dit.line.operation, 1))
           /\ dit.line.operation[1] < LineMaxOps
           /\ (LineCallInstrs \in {<<"advance_pc", "copy">>, <<"advance_pc_max", "copy">>,
                                   <<"const_add_pc", "copy">>, <<"special">>})
                => /\ dit.line.address
                        = LineAdvanced(LineStart, LineOpDelta(LineCallInstrs[1])).address
                   /\ dit.line.operation
                        = LineAdvanced(LineStart, LineOpDelta(LineCallInstrs[1])).operation
           /\ LineCallInstrs = <<"fixed_advance_pc", "copy">>
                => /\ dit.line.address
                        = AddDigits(LineStart.address,
                                    U64(IF inp.h.endian = "big" THEN 52 * 256 + 18
                                        ELSE 18 * 256 + 52), 0)
                   /\ dit.line.operation = U64(0)

\* The part of C18 that holds: the registers of the rows, in wrapping
\* arithmetic, when no call has failed in the arithmetic
C18_WrappingAdvance == pc = "line_panicked" \/ C18_PcAdvance

\* The header is complete and of a supported version
LineVersionOk == inp.h.version \in 2..4
\* A field that must not be 0 is 0
LineZeroField ==
    \/ inp.h.address_step = 0
    \/ inp.h.version >= 4 /\ inp.h.operation_range = 0
    \/ inp.h.line_range = 0
    \/ inp.h.opcode_base = 0

\* C19: for a header of version 2 to 4, LineProgram::read returns Invalid
\* when minimum_instruction_length, maximum_operations_per_instruction (in
\* version 4), line_range or opcode_base is 0; a parsed program of version 2
\* or 3 has maximum_operations_per_instruction 1; every parsed program has
\* all four nonzero and opcode_base - 1 standard opcode lengths.
C19_HeaderValidation ==
    (pc \in {"line", "line_failed", "line_panicked"} /\ LineVersionOk)
        => /\ LineZeroField => (rres.err = "Invalid" /\ pc = "line_failed")
           /\ IsOk(rres)
                => /\ inp.h.version < 4 => rres.val.operation_range = 1
                   /\ rres.val.address_step > 0 /\ rres.val.operation_range > 0
                   /\ rres.val.line_range > 0 /\ rres.val.opcode_base > 0
                   /\ Len(rres.val.standard_opcode_lengths) = rres.val.opcode_base - 1
                   /\ rres.val.address_step = inp.h.address_step
                   /\ rres.val.line_range = inp.h.line_range
                   /\ rres.val.opcode_base = inp.h.opcode_base

C19_Witness ==
    /\ pc = "line_failed" /\ inp.h.version = 3 /\ inp.h.operation_range = 0
    /\ inp.h.address_step = 1 /\ inp.h.line_range = 0 /\ inp.h.opcode_base = 13
    /\ rres.err = "Invalid"

\* ------------------------------------------------------------------------
\* Entry write: Die::write of an entry built by the caller.
InitEntry ==
    /\ \E code \in WriteCodes, children \in BOOLEAN :
         \E picks \in SeqsUpTo(1..Len(WriteAttributes), MaxWriteAttrs) :
            inp = WriteEntry(code, children, picks)
    /\ wres = WOk(<<>>)
    /\ rres = Err("none", <<>>)
    /\ pc = "entry"
    /\ IterIdle /\ CurIdle /\ TreeIdle

EntryWrite ==
    /\ pc = "entry"
    /\ wres' = Die_write(inp.die, inp.unit, DieAbbrevs)
    /\ pc' = "entry_written"
    /\ UNCHANGED <<inp, rres, iterVars, curVars, treeVars>>

NextEntry == EntryWrite
SpecEntry == InitEntry /\ [][NextEntry]_vars

\* The abbreviation of the written entry; the entry has one
EntryAbbrev == AbbrevHash_get(DieAbbrevs, inp.die.code).val
EntryWritten ==
    /\ pc = "entry_written" /\ ~IsZero(inp.die.code)
    /\ AbbrevHash_get(DieAbbrevs, inp.die.code).some
\* The three inconsistencies
ChildrenMismatch == inp.die.children # EntryAbbrev.children
CountMismatch == Len(inp.die.attributes) # Len(EntryAbbrev.attributes)
VariantMismatch ==
    /\ ~ChildrenMismatch /\ ~CountMismatch
    /\ \E i \in 1..Len(inp.die.attributes) :
         <<EntryAbbrev.attributes[i].form, inp.die.attributes[i].data.variant>> \notin FormTable

\* C20: Die::write of an entry whose children flag or attribute count
\* differs from its abbreviation's, or one of whose attribute values has a
\* variant that does not correspond to the abbreviation's form, fails with
\* WriteError::Invalid.
C20_WriteInvalid ==
    EntryWritten
        => /\ ChildrenMismatch => wres.err = "Invalid"
           /\ CountMismatch => wres.err = "Invalid"
           /\ VariantMismatch => wres.err = "Invalid"

\* The part of C20 that holds: such a write never returns Ok, and is Invalid
\* for the children flag and the attribute count
C20_NeverOk ==
    EntryWritten
        => /\ (ChildrenMismatch \/ CountMismatch) => wres.err = "Invalid"
           /\ VariantMismatch => wres.err \in {"Invalid", "Unsupported"}

\* ------------------------------------------------------------------------
\* Failing reads: next is called on a unit iterator or on a DieIterator, again
\* after an error too.
InitRead ==
    \/ InitIter
    \/ /\ inp \in ReadBodies
       /\ \E e \in Endians :
            dit = DieIterator_new(inp.body, CompilationUnit_data_offset(DieUnit(e, 0)),
                                  DieUnit(e, 0), DieAbbrevs)
       /\ ret = [op |-> "new", before |-> dit, res |-> "none", reads |-> <<>>]
       /\ calls = <<>>
       /\ wres = WOk(<<>>)
       /\ rres = Err("none", <<>>)
       /\ pc = "next"
       /\ IterIdle /\ TreeIdle

ReadCUNext == pc = "idle" /\ CUNext
ReadTUNext == pc = "idle" /\ TUNext
ReadDieNext ==
    /\ pc = "next"
    /\ \E n \in {DieIterator_next(dit)} :
         /\ dit' = n.it
         /\ ret' = [op |-> "next", before |-> dit, res |-> n.res, reads |-> <<>>]
    /\ UNCHANGED <<rtVars, calls, iterVars, treeVars>>

NextRead == ReadCUNext \/ ReadTUNext \/ ReadDieNext
SpecRead == InitRead /\ [][NextRead]_vars

\* The last call of next returned an error
UnitNextFailed == pc = "idle" /\ last.res \notin {"init", "ok", "none"}
DieNextFailed == pc = "next" /\ ret.op = "next" /\ ret.res \notin {"some", "none"}

\* C21: when next of a unit iterator or of a DieIterator returns an error,
\* the iterator's offset and remaining input are those before the call (of
\* the DieIterator only the entry buffer may differ), and the same call made
\* again returns the same error.
C21_ErrorsCommitNothing ==
    /\ UnitNextFailed
        => /\ iter = last.before
           /\ (IF iter.kind = "cu" THEN CompilationUnitIterator_next(iter)
               ELSE TypeUnitIterator_next(iter)).res = last.res
    /\ DieNextFailed
        => /\ dit.offset = ret.before.offset /\ dit.r = ret.before.r
           /\ dit.unit = ret.before.unit /\ dit.abbrev = ret.before.abbrev
           /\ DieIterator_next(dit).res = ret.res

\* an entry has been read, the read of the next one failed after its code,
\* and the call has been made again
C21_Witness ==
    /\ DieNextFailed /\ ret.res = "Eof"
    /\ ret.before.offset > CompilationUnit_data_offset(DieUnit("little", 0))
    /\ ~IsZero(dit.entry.code) /\ Len(dit.r) > 1
    /\ ret.before.entry = dit.entry

\* ------------------------------------------------------------------------
\* The cursor on streams with any DW_AT_sibling values: next and
\* next_sibling in any order.
InitSibling ==
    /\ \E toks \in SeqsUpTo(SiblingTokens, MaxSiblingTokens), cut \in {0, 1} :
         /\ cut <= Len(toks)
         /\ \E x \in {SiblingInput(toks, DieUnit("big", 7), cut)} :
              inp = [x EXCEPT !.body = SubSeq(x.body, 1, Len(x.body) - cut)]
    /\ dit = DieIterator_new(inp.body, inp.start, inp.unit, SiblingAbbrevs)
    /\ ret = [op |-> "new", before |-> dit, res |-> "none", reads |-> <<>>]
    /\ calls = <<>>
    /\ wres = WOk(<<>>)
    /\ rres = Err("none", <<>>)
    /\ pc = "sibling"
    /\ IterIdle /\ TreeIdle

SiblingNext ==
    /\ pc = "sibling" /\ Len(calls) < MaxSiblingCalls
    /\ \E n \in {DieIterator_next(dit)} :
         /\ dit' = n.it
         /\ ret' = [op |-> "next", before |-> dit, res |-> n.res,
                    reads |-> IF n.res = "none" THEN <<>> ELSE <<dit.offset>>]
    /\ calls' = Append(calls, "next")
    /\ UNCHANGED <<rtVars, iterVars, treeVars>>

SiblingNextSibling ==
    /\ pc = "sibling" /\ Len(calls) < MaxSiblingCalls
    /\ \E checked \in BOOLEAN :
         \E s \in {DieIterator_next_sibling(dit, checked)} :
            /\ dit' = s.it
            /\ ret' = [op |-> "next_sibling", before |-> dit, res |-> s.res, reads |-> s.reads]
            /\ pc' = IF s.res = "Panic" THEN "sibling_panicked" ELSE pc
    /\ calls' = Append(calls, "next_sibling")
    /\ UNCHANGED <<inp, wres, rres, iterVars, treeVars>>

NextSibling == SiblingNext \/ SiblingNextSibling
SpecSibling == InitSibling /\ [][NextSibling]_vars

\* The last call was next_sibling on an entry with children
SiblingCalled ==
    /\ pc \in {"sibling", "sibling_panicked"}
    /\ ret.op = "next_sibling" /\ ret.before.entry.children
\* The value of the entry's DW_AT_sibling is a Ref, and unit offset + Ref is
\* ahead of the cursor and not beyond the end of the input.  The sum is that
\* of the integers: a Ref of more than four bytes is beyond every input.
SiblingRefValue(it) == SiblingAttribute(it.entry).val.data.val
SiblingGuard(it) ==
    /\ HasSiblingRef(it)
    /\ IsSmall(SiblingRefValue(it))
    /\ it.unit.offset + SmallInt(SiblingRefValue(it)) > it.offset
    /\ it.unit.offset + SmallInt(SiblingRefValue(it)) <= it.offset + Len(it.r)
\* The cursor with the DW_AT_sibling attributes of its entry removed
WithoutSibling(it) ==
    [it EXCEPT !.entry.attributes = SelectSeq(@, LAMBDA a : a.at # DW_AT_sibling)]

\* The last call has the result x.res and has left the cursor where x.it is,
\* with the entry of x.it if it returned one
SameOutcome(x) ==
    /\ ret.res = x.res
    /\ dit.offset = x.it.offset /\ dit.r = x.it.r
    /\ ret.res = "some" => dit.entry = x.it.entry

\* C22: next_sibling on an entry with children follows its DW_AT_sibling
\* exactly when the value is a Ref and unit offset + Ref is ahead of the
\* cursor and within the remaining input: then the first entry it reads is
\* the one at that offset; otherwise the call has the result, the entry and
\* the cursor that it has when the entry carries no DW_AT_sibling.
C22_SiblingGuard ==
    SiblingCalled
        => /\ SiblingGuard(ret.before)
                => /\ ret.res # "Panic"
                   /\ ret.reads # <<>>
                        => ret.reads[1] = ret.before.unit.offset
                                            + SmallInt(SiblingRefValue(ret.before))
           /\ ~SiblingGuard(ret.before)
                => SameOutcome(DieIterator_next_sibling(WithoutSibling(ret.before), FALSE))

\* The part of C22 that holds: the guard, in a build without overflow checks
\* or with a Ref that does not overflow
C22_WithoutOverflow == (pc = "sibling_panicked") \/ C22_SiblingGuard

\* C27: offset() plus the length of the remaining input is the offset the
\* cursor was created at plus the length of the input; offset() never
\* decreases, and increases on every call that returns an entry.
C27_CursorConservation ==
    pc \in {"sibling", "sibling_panicked"}
        => /\ dit.offset + Len(dit.r) = inp.start + Len(inp.body)
           /\ dit.r = Drop(inp.body, dit.offset - inp.start)
           /\ dit.offset >= ret.before.offset
           /\ (ret.op # "new" /\ ret.res = "some") => dit.offset > ret.before.offset

\* a sibling reference into the middle of an entry has been followed and the
\* read at that offset has failed
C27_Witness ==
    /\ pc = "sibling" /\ ret.op = "next_sibling" /\ ret.res = "Invalid"
    /\ SiblingGuard(ret.before)
    /\ dit.offset = ret.before.offset + 1 /\ Len(dit.r) = Len(ret.before.r) - 1

\* ------------------------------------------------------------------------
\* A cursor that ignores DW_AT_sibling: next_sibling as the scan with the
\* depth of the nulls only.
RECURSIVE LinearSibling(_, _)
RECURSIVE LinearSiblingNext(_, _)
LinearSibling(it, depth) ==
    LinearSiblingNext(DieIterator_next(it), IF it.entry.children THEN depth + 1 ELSE depth)
LinearSiblingNext(n, depth) ==
    IF n.res # "some" \/ depth <= 0 THEN n
    ELSE LinearSibling(n.it, IF Die_is_null(n.it.entry) THEN depth - 1 ELSE depth)
\* The first k calls of the run, made on that cursor
RECURSIVE LinearReplay(_)
LinearReplay(k) ==
    IF k = 0
    THEN [it |-> DieIterator_new(inp.body, inp.start, inp.unit, CursorAbbrevs), res |-> "none"]
    ELSE IF calls[k] = "next" THEN DieIterator_next(LinearReplay(k - 1).it)
    ELSE LinearSibling(LinearReplay(k - 1).it, 0)

\* C23: on a well-formed stream whose DW_AT_sibling values are the offsets of
\* the true next siblings, every call of a sequence of next and next_sibling
\* calls has the result, the entry and the cursor offset and input that the
\* same sequence has on a cursor that ignores DW_AT_sibling.
C23_FastPathIsLinear ==
    (pc = "cursor" /\ Len(calls) > 0) => SameOutcome(LinearReplay(Len(calls)))

\* a DW_AT_sibling met on a nested entry during the scan has been followed
C23_Witness ==
    /\ pc = "cursor" /\ inp.toks = <<"parent", "sib", "null", "null", "leaf">>
    /\ calls = <<"next", "next_sibling">>
    /\ ret.res = "some" /\ Len(ret.reads) = 3 /\ inp.unit.offset = 7
    /\ dit.entry = inp.entries[5]

\* ------------------------------------------------------------------------
\* Extended opcodes: the unit is parsed and next is called on its iterator
\* until the program is used up or a call fails.
InitExtended ==
    /\ \E h \in LineRunConfigs, pre \in {<<>>, <<200>>}, len \in ExtendedLengths,
          body \in ExtendedBodies, tail \in ExtendedTails :
            inp = ExtendedInput(h, pre, len, body, tail)
    /\ wres = WOk(<<>>)
    /\ rres = Err("none", <<>>)
    /\ pc = "line_init"
    /\ IterIdle /\ CurIdle /\ TreeIdle

SpecExtended == InitExtended /\ [][NextLine]_vars

\* The last call started at the extended opcode; the iterator when the
\* opcode is read, and the result of the opcode
ExtendedCalled ==
    /\ pc \in {"line", "line_panicked"} /\ ret.res # "new"
    /\ Len(ret.before.data) = Len(inp.program) - Len(inp.pre)
ExtendedBefore == LineIterator_next_line(ret.before)
ExtendedResult == LineIterator_next_opcode(ExtendedBefore, ret.before.data, FALSE)
\* The bytes after the length, the length fits them, and the region
ExtendedRest == inp.body \o inp.tail
ExtendedFits == inp.len.n >= 0 /\ inp.len.n <= Len(ExtendedRest)
ExtendedRegion == SubSeq(ExtendedRest, 1, inp.len.n)
\* The result of the opcode when the program ends with the region
ExtendedAlone ==
    LineIterator_next_opcode(
        ExtendedBefore, <<DW_LNS_extended>> \o inp.len.enc \o ExtendedRegion, FALSE)

\* C24: an extended opcode whose length n does not exceed the remaining
\* program and that executes leaves the reader exactly 1 + (size of the
\* length) + n bytes further, whatever the sub-opcode; its result is that of
\* the same opcode in a program that ends with the region, so no operand
\* comes from outside it, and a set_address region shorter than the address
\* or an empty region is an error; n greater than the remaining bytes and
\* sub-opcode 0 are Invalid; an unknown non-zero sub-opcode succeeds and
\* leaves every line register, the file table and the copy flag as they
\* were; the call returns what the loop of next makes of that result.
C24_ExtendedRegion ==
    ExtendedCalled
        => /\ ~ExtendedFits => ExtendedResult.err = "Invalid"
           /\ ExtendedFits
                => /\ ExtendedResult.err = "ok"
                        => ExtendedResult.r = Drop(ExtendedRest, inp.len.n)
                   /\ ExtendedResult.it = ExtendedAlone.it
                   /\ ExtendedResult.err = ExtendedAlone.err
                   /\ inp.len.n = 0 => ExtendedResult.err # "ok"
                   /\ inp.len.n > 0 /\ ExtendedRegion[1] = 0
                        => ExtendedResult.err = "Invalid"
                   /\ (inp.len.n > 0 /\ ExtendedRegion[1] = DW_LNE_set_address
                            /\ inp.len.n - 1 < inp.h.address_size)
                        => ExtendedResult.err # "ok"
                   /\ (inp.len.n > 0 /\ ExtendedRegion[1] = DW_LNE_set_discriminator
                            /\ ExtendedRegion[inp.len.n] >= 128)
                        => ExtendedResult.err # "ok"
                   /\ (inp.len.n > 0 /\ ExtendedRegion[1] > DW_LNE_set_discriminator)
                        => /\ ExtendedResult.err = "ok"
                           /\ ExtendedResult.it = ExtendedBefore
           /\ ExtendedResult.err # "ok"
                => /\ ret.res = ExtendedResult.err
                   /\ dit.data = ret.before.data
                   /\ dit.program = ret.before.program
           /\ (ExtendedResult.err = "ok" /\ ret.res = "some")
                => Len(dit.data) <= Len(ExtendedResult.r)

\* The length 3 covers the unknown sub-opcode 5 and its two bytes: the row
\* of the copy opcode after it has the registers of the row before it
C24_Witness ==
    /\ ExtendedCalled /\ ret.res = "some" /\ Len(calls) = 2
    /\ inp.pre = <<200>> /\ inp.len.enc = <<131, 0>> /\ inp.body = <<5, 7, 7>>
    /\ inp.tail = <<DW_LNS_copy, DW_LNS_copy>>
    /\ Len(ret.before.data) - Len(dit.data) = 1 + 2 + 3 + 1
    /\ calls[2] = calls[1]
    /\ calls[1].line # U64(1)

\* ------------------------------------------------------------------------
\* Writes that may fail: AttributeData::write of any value with any form,
\* and Die::write of an entry built by the caller.  wres.out is what the
\* sink, empty before the call, holds after it.
InitWrite ==
    \/ InitEntry
    \/ /\ \E f \in WriteForms, k \in 1..Len(WriteValues), u \in WriteUnits, i \in BOOLEAN :
            inp = WriteInput(f, k, u, i)
       /\ wres = WOk(<<>>)
       /\ rres = Err("none", <<>>)
       /\ pc = "init"
       /\ IterIdle /\ CurIdle /\ TreeIdle

NextWrite == AttrWrite \/ EntryWrite
SpecWrite == InitWrite /\ [][NextWrite]_vars

\* A write has returned an error
WriteFailed ==
    /\ pc \in {"written", "entry_written"}
    /\ wres.err \in {"Invalid", "Unsupported"}

\* C25: whenever Die::write or AttributeData::write returns an error, no
\* byte has been appended to the sink, with direct and with indirect
\* encoding.
C25_FailedWritesCommitNothing == WriteFailed => wres.out = <<>>

\* The part of C25 that holds: Die::write of an entry without abbreviation
\* or with a children flag or attribute count other than its abbreviation's,
\* and AttributeData::write with direct encoding, append nothing when they
\* fail
C25_ChecksBeforeWriting ==
    WriteFailed
        => /\ (pc = "written" /\ ~inp.indirect) => wres.out = <<>>
           /\ (pc = "entry_written" /\ ~AbbrevHash_get(DieAbbrevs, inp.die.code).some)
                => wres.out = <<>>
           /\ (EntryWritten /\ (ChildrenMismatch \/ CountMismatch)) => wres.out = <<>>

\* Flag(false) is written with DW_FORM_flag_present
FlagPresentFalse ==
    inp.value.variant = "Flag" /\ ~inp.value.val /\ inp.form = DW_FORM_flag_present

\* C28: AttributeData::write returns Ok or a WriteError for every value,
\* form, unit and indirect flag, never aborts, and Flag(false) with
\* DW_FORM_flag_present is a write error.
C28_WriteTotal ==
    pc = "written"
        => /\ wres.err \in {"ok", "Invalid", "Unsupported"}
           /\ FlagPresentFalse => wres.err \in {"Invalid", "Unsupported"}

\* The part of C28 that holds: every combination other than Flag(false)
\* with DW_FORM_flag_present returns Ok or WriteError::Unsupported, Ok
\* exactly for a form that corresponds to the variant in a unit whose
\* address or offset size the form can be written with
C28_TotalButFlagPresent ==
    (pc = "written" /\ ~FlagPresentFalse)
        => /\ wres.err \in {"ok", "Unsupported"}
           /\ <<inp.form, inp.value.variant>> \notin FormTable => wres.err = "Unsupported"

\* ------------------------------------------------------------------------
\* The file table: the unit is parsed into the LineProgram rres.val, lines()
\* is called on it at any time, and next on any of the iterators, which are
\* in stack.  ret is the last call: the iterator i it was made on (or made)
\* and the iterators before it.
InitFiles ==
    /\ \E h \in LineRunConfigs :
         \E instrs \in SeqsUpTo(FileInstrs, MaxFileInstrs) : inp = LineInput(h, instrs)
    /\ wres = WOk(<<>>)
    /\ rres = Err("none", <<>>)
    /\ pc = "files_init"
    /\ IterIdle /\ CurIdle /\ TreeIdle

FilesRead ==
    /\ pc = "files_init"
    /\ rres' = LineProgram_read(inp.unit, 0, inp.h.endian, inp.h.address_size, <<>>, <<>>)
    /\ pc' = IF IsOk(rres') THEN "files" ELSE "files_failed"
    /\ ret' = [op |-> "read", i |-> 0, before |-> stack, res |-> rres'.err]
    /\ UNCHANGED <<inp, wres, dit, calls, stack, tree, iterVars>>

FilesLines ==
    /\ pc = "files" /\ Len(stack) < MaxIterators
    /\ stack' = Append(stack, LineProgram_lines(rres.val))
    /\ ret' = [op |-> "lines", i |-> Len(stack) + 1, before |-> stack, res |-> "new"]
    /\ UNCHANGED <<rtVars, dit, calls, tree, iterVars>>

FilesNext ==
    /\ pc = "files"
    /\ \E i \in 1..Len(stack), checked \in BOOLEAN :
         \E n \in {LineIterator_next(stack[i], checked)} :
            /\ stack' = [stack EXCEPT ![i] = n.it]
            /\ ret' = [op |-> "next", i |-> i, before |-> stack, res |-> n.res]
            /\ pc' = IF n.res = "Panic" THEN "files_panicked" ELSE pc
    /\ UNCHANGED <<inp, wres, rres, dit, calls, tree, iterVars>>

NextFiles == FilesRead \/ FilesLines \/ FilesNext
SpecFiles == InitFiles /\ [][NextFiles]_vars

\* s is the beginning of t
IsPrefix(s, t) == Len(s) <= Len(t) /\ SubSeq(t, 1, Len(s)) = s
\* The instructions between the positions of the iterators b and a of the
\* program, and how many of them are define_file
FilesInstrOffset(it) ==
    CHOOSE i \in 1..(Len(inp.instrs) + 1) :
        LineInstrOffset(i) = Len(inp.program) - Len(it.data)
FilesDefined(b, a) ==
    Cardinality({k \in FilesInstrOffset(b)..(FilesInstrOffset(a) - 1) :
                    inp.instrs[k] = "define_file"})
\* The files of the header: the compilation unit's name and "a"
FilesOfHeader ==
    <<FileEntry(<<>>, U64(0), U64(0), U64(0)), FileEntry(<<97>>, U64(0), U64(0), U64(0))>>
FilesAppended(b, a) ==
    /\ IsPrefix(b.program.files, a.program.files)
    /\ Len(a.program.files) = Len(b.program.files) + FilesDefined(b, a)
    /\ \A k \in (Len(b.program.files) + 1)..Len(a.program.files) :
         a.program.files[k] = FileEntry(<<98>>, U64(1), U64(0), U64(0))

\* C26: a call of next leaves the file list of its iterator as it was,
\* followed by one FileEntry for each DW_LNE_define_file it executed: the
\* list is never shortened or reordered, not by the reset after
\* end_sequence and not by a failing call; the call leaves every other
\* iterator as it was; the LineProgram's file list is always that of the
\* header, and an iterator made by lines() starts with it, whatever other
\* iterators have executed.
C26_FileTable ==
    pc \in {"files", "files_panicked"}
        => /\ rres.val.files = FilesOfHeader
           /\ \A j \in 1..Len(stack) : IsPrefix(rres.val.files, stack[j].program.files)
           /\ ret.op = "lines" => /\ stack[ret.i].program.files = rres.val.files
                                  /\ SubSeq(stack, 1, Len(ret.before)) = ret.before
           /\ ret.op = "next"
                => /\ FilesAppended(ret.before[ret.i], stack[ret.i])
                   /\ \A j \in 1..Len(stack) : j # ret.i => stack[j] = ret.before[j]

\* The first iterator has defined a file, ended the sequence and emitted a
\* row after the reset; the second one has not started
C26_Witness ==
    /\ pc = "files" /\ inp.instrs = <<"define_file", "end_sequence", "copy">>
    /\ Len(stack) = 2 /\ ret.op = "next" /\ ret.i = 1 /\ ret.res = "some"
    /\ ret.before[1].line.sequence_end /\ ~stack[1].line.sequence_end
    /\ Len(stack[1].data) = 0
    /\ Len(stack[1].program.files) = 3 /\ Len(stack[2].program.files) = 2
    /\ Len(rres.val.files) = 2

\* The call of next_sibling that would come next, and the nulls that the
\* calls of next_sibling return from the cursor it up to the offset end
TreeNextSibling == DieIterator_next_sibling(tree.iter, FALSE)
RECURSIVE TreeNullsReturned(_, _)
TreeNullsAfter(s, end) ==
    IF s.res # "some" THEN 0
    ELSE (IF Die_is_null(s.it.entry) THEN 1 ELSE 0) + TreeNullsReturned(s.it, end)
TreeNullsReturned(it, end) ==
    IF it.offset >= end THEN 0
    ELSE TreeNullsAfter(DieIterator_next_sibling(it, FALSE), end)
\* The last call went to DieTree::next, and there to the read of the first
\* child
TreeAsked == pc = "tree" /\ ret.op = "next" /\ ~ret.before.done
TreeAskedChild == TreeAsked /\ ret.tree.depth < ret.before.depth

\* C29: on a well-formed stream, whatever was done with the child
\* iterators, DieTree.depth is the nesting depth of the entry that the next
\* call of DieIterator::next_sibling returns (a null counting with the
\* children it ends); every call of DieTree::next has a target depth of at
\* most depth + 1; the call that reads a first child adds one to depth if
\* that child is not null and else leaves it, and every other call
\* subtracts one for each null that next_sibling returned to it.
C29_TreeDepth ==
    pc = "tree"
        => /\ TreeNextSibling.res = "some"
                => /\ TreeIndexKnown(TreeNextSibling.it.entry)
                   /\ tree.depth
                        = EntryDepth(inp.toks, TreeIndex(TreeNextSibling.it.entry))
           /\ TreeAsked => ret.before.depth <= ret.tree.depth + 1
           /\ ~TreeAsked => tree.depth = ret.tree.depth
           /\ TreeAskedChild
                => tree.depth
                    = (IF ret.res = "some" /\ ~Die_is_null(tree.iter.entry)
                            /\ TreeIndex(tree.iter.entry)
                                = TreeIndex(ret.tree.iter.entry) + 1
                       THEN ret.tree.depth + 1 ELSE ret.tree.depth)
           /\ (TreeAsked /\ ~TreeAskedChild)
                => tree.depth
                    = ret.tree.depth - TreeNullsReturned(ret.tree.iter, tree.iter.offset)

\* The iterator of the children of the first entry goes on after the
\* iterator of its grandchildren was dropped partly iterated: next_sibling
\* returns the null after the grandchild, and then the second child
C29_Witness ==
    /\ pc = "tree" /\ inp.toks = <<"parent", "parent", "leaf", "null", "leaf">>
    /\ Len(stack) = 3 /\ ret.op = "next" /\ ret.res = "some"
    /\ ret.before.depth = 1 /\ ret.tree.depth = 2 /\ tree.depth = 1
    /\ stack[2].left = <<"part">>

\* ------------------------------------------------------------------------
\* Progress: the unit of a program of any bytes is parsed and next is called
\* on its iterator, again after None and after errors.
InitProgress ==
    /\ \E h \in LineRunConfigs, program \in SeqsUpTo(ProgressBytes, MaxProgram) :
            inp = ProgressInput(h, program)
    /\ wres = WOk(<<>>)
    /\ rres = Err("none", <<>>)
    /\ pc = "line_init"
    /\ IterIdle /\ CurIdle /\ TreeIdle

SpecProgress == InitProgress /\ [][NextLine]_vars

\* next has been called; s is the end of t
ProgressCalled == pc \in {"line", "line_panicked"} /\ ret.res # "new"
IsSuffix(s, t) == Len(s) <= Len(t) /\ SubSeq(t, Len(t) - Len(s) + 1, Len(t)) = s

\* C30: for any program bytes, a call of next leaves as unconsumed program
\* an end of what was unconsumed before it, a shorter one if it returns a
\* row; it returns None exactly when nothing was unconsumed, and then
\* changes nothing; the rows returned so far are at most as many as the bytes
\* consumed; and after a call that returned None or an error no call returns
\* a row.
C30_LineProgress ==
    ProgressCalled
        => /\ IsSuffix(dit.data, ret.before.data)
           /\ IsSuffix(ret.before.data, inp.program)
           /\ ret.res = "some" => Len(dit.data) < Len(ret.before.data)
           /\ ret.res = "none" <=> Len(ret.before.data) = 0
           /\ ret.res = "none" => dit = ret.before
           /\ Len(calls) <= Len(inp.program) - Len(dit.data)
           /\ ret.res # "some"
                => \A checked \in BOOLEAN : LineIterator_next(dit, checked).res # "some"

\* After the row of the copy opcode the opcode with its operand is executed
\* and the program ends: the call fails, with nothing left unconsumed
C30_Witness ==
    /\ ProgressCalled /\ inp.program = <<DW_LNS_copy, DW_LNS_advance_line, 1>>
    /\ Len(calls) = 1 /\ ret.res = "Eof"
    /\ Len(ret.before.data) = 2 /\ Len(dit.data) = 0

====
